---------------------------- MODULE Spec2Model ----------------------------
(***************************************************************************)
(* A model of nifxml.py (niftools/nifxml): the loader parse_xml that fills *)
(* the module-level registries TYPES_* / NAMES_* from a schema document,   *)
(* the version codec version2number, the entity constructors (Version,     *)
(* Basic, Enum, Flag, Struct, Block, Member), the expression parser used   *)
(* by Member, and the Block queries ancestors and find_member.              *)
(*                                                                         *)
(* Texts (version strings, expression strings) are sequences of one-       *)
(* character strings, so that splitting, stripping and scanning are done   *)
(* as the code does them; names are texts too, since the code compares    *)
(* them with the terminals of expressions.  The interpreter is CPython 3    *)
(* run without -O, so an assert statement that fails raises                *)
(* AssertionError.  Python integers are unbounded; the texts drawn keep    *)
(* every value below 2^31.                                                 *)
(***************************************************************************)
EXTENDS Integers, Sequences, FiniteSets, TLC

(***************************************************************************)
(* Bounds of the model.                                                    *)
(***************************************************************************)
\* number of parse_xml calls made in one interpreter process
MaxLoads == 2
\* number of nested has_arr calls after which Python raises RecursionError
RecursionLimit == 6

(***************************************************************************)
(* Python values.                                                          *)
(***************************************************************************)
\* Python's None, for attributes that hold a name or None: no text equals it
None == <<"<None>">>

\* the outcome of a call: a returned value or a raised exception
Return(v) == [kind |-> "return", val |-> v, exc |-> ""]
Raise(e) == [kind |-> "raise", val |-> 0, exc |-> e]
\* a call that returned None (val is unused)
ReturnNone == [kind |-> "none", val |-> 0, exc |-> ""]

(***************************************************************************)
(* Text helpers: str.split, str.strip, int().                              *)
(***************************************************************************)
Digits == {"0", "1", "2", "3", "4", "5", "6", "7", "8", "9"}

DigitVal(c) ==
    CASE c = "0" -> 0 [] c = "1" -> 1 [] c = "2" -> 2 [] c = "3" -> 3
      [] c = "4" -> 4 [] c = "5" -> 5 [] c = "6" -> 6 [] c = "7" -> 7
      [] c = "8" -> 8 [] c = "9" -> 9

IsDigits(s) == Len(s) > 0 /\ \A i \in 1..Len(s) : s[i] \in Digits

RECURSIVE DecVal(_)
\* the value of a non-empty digit string, most significant digit first
DecVal(s) ==
    IF Len(s) = 0 THEN 0
    ELSE 10 * DecVal(SubSeq(s, 1, Len(s) - 1)) + DigitVal(s[Len(s)])

RECURSIVE LStrip(_, _)
\* s.lstrip(chars)
LStrip(s, chars) ==
    IF Len(s) > 0 /\ s[1] \in chars THEN LStrip(Tail(s), chars) ELSE s

RECURSIVE RStrip(_, _)
RStrip(s, chars) ==
    IF Len(s) > 0 /\ s[Len(s)] \in chars
    THEN RStrip(SubSeq(s, 1, Len(s) - 1), chars) ELSE s

\* s.strip(): the blank is the only whitespace character drawn here
Strip(s) == RStrip(LStrip(s, {" "}), {" "})

\* int(s): surrounding blanks are ignored; ValueError unless the rest is a
\* non-empty string of decimal digits (a sign or an underscore is never part
\* of a text that reaches int() here)
IntOfDigits(s) == IF IsDigits(s) THEN Return(DecVal(s)) ELSE Raise("ValueError")

PyInt(s) == IntOfDigits(Strip(s))

RECURSIVE SplitFrom(_, _, _)
\* s.split(sep) continued: cur is the component being collected
SplitFrom(s, sep, cur) ==
    IF Len(s) = 0 THEN <<cur>>
    ELSE IF s[1] = sep THEN <<cur>> \o SplitFrom(Tail(s), sep, <<>>)
    ELSE SplitFrom(Tail(s), sep, Append(cur, s[1]))

\* s.split(sep) for a one-character separator
Split(s, sep) == SplitFrom(s, sep, <<>>)

\* x << n
Shl(x, n) == x * (2 ^ n)

(***************************************************************************)
(* version2number                                                          *)
(***************************************************************************)
MIN_XML_VERSION == <<"0", ".", "9", ".", "1", ".", "0">>

\* a variant that packs the first component into the lowest byte
PackAddLowFirst(v, rest, i) ==
    IF v.kind = "raise" THEN v
    ELSE IF rest.kind = "raise" THEN rest
    ELSE Return(Shl(v.val, i * 8) + rest.val)

\* "version += int(ver) << ((3 - i) * 8)" for the value v of int(ver) and the
\* sum rest of the later components; an int() that fails ends the loop
PackAdd(v, rest, i) ==
    IF v.kind = "raise" THEN v
    ELSE IF rest.kind = "raise" THEN rest
    ELSE Return(Shl(v.val, (3 - i) * 8) + rest.val)

RECURSIVE PackFrom(_, _)
\* the loop "for i, ver in enumerate(numbers)" from index i (0-based) on
PackFrom(numbers, i) ==
    IF i >= Len(numbers) THEN Return(0)
    ELSE PackAdd(PyInt(numbers[i + 1]), PackFrom(numbers, i + 1), i)

\* a variant that reads the second component as one number, as the
\* four-component form does
PackShortSumPadded(hi, d1, d2, d3) ==
    IF hi.kind = "raise" THEN hi
    ELSE IF d1.kind = "raise" THEN d1
    ELSE IF d2.kind = "raise" THEN d2
    ELSE IF d3.kind = "raise" THEN d3
    ELSE Return(Shl(hi.val, 24) + Shl(d1.val, 16) + Shl(d2.val, 16) + Shl(d3.val, 16))

\* the sum of the two-component short form, from the values of its int() calls
PackShortSum(hi, d1, d2, d3) ==
    IF hi.kind = "raise" THEN hi
    ELSE IF d1.kind = "raise" THEN d1
    ELSE IF d2.kind = "raise" THEN d2
    ELSE IF d3.kind = "raise" THEN d3
    ELSE Return(Shl(hi.val, 24) + Shl(d1.val, 16) + Shl(d2.val, 8) + d3.val)

\* the digits of the second component, by digit position
PackShortDigits(hi, lo) ==
    PackShortSum(hi,
                 IF Len(lo) >= 1 THEN PyInt(<<lo[1]>>) ELSE Return(0),
                 IF Len(lo) >= 2 THEN PyInt(<<lo[2]>>) ELSE Return(0),
                 IF Len(lo) >= 3 THEN PyInt(SubSeq(lo, 3, Len(lo))) ELSE Return(0))

\* the two-component short form
PackShort(numbers) == PackShortDigits(PyInt(numbers[1]), numbers[2])

\* version2number(s) after "numbers = s.split('.')"
PackNumbers(numbers) ==
    IF Len(numbers) > 4 THEN Raise("AssertionError")
    ELSE IF Len(numbers) = 2 THEN PackShort(numbers)
    ELSE PackFrom(numbers, 0)

version2number(s) ==
    IF Len(s) = 0 THEN ReturnNone ELSE PackNumbers(Split(s, "."))

\* a variant of the comparison that lets every version through
AtLeastAlways(v, m) == [kind |-> "return", val |-> TRUE, exc |-> ""]

\* "self.version >= version2number(MIN_XML_VERSION)": None >= int raises
\* TypeError
AtLeast(v, m) ==
    IF v.kind = "raise" THEN [kind |-> "raise", val |-> FALSE, exc |-> v.exc]
    ELSE IF v.kind = "none" THEN [kind |-> "raise", val |-> FALSE, exc |-> "TypeError"]
    ELSE [kind |-> "return", val |-> (v.val >= m.val), exc |-> ""]

\* NifXml(element).is_supported(), with the exception NifXml(element) raises
is_supported(version) ==
    AtLeast(version2number(version), version2number(MIN_XML_VERSION))


(***************************************************************************)
(* Expression: _scan_brackets, _partition, _parse, __init__                *)
(***************************************************************************)
\* Python's s[a:b] with 0-based a and b, clamped to the text
Slice(s, a, b) ==
    LET hi == IF b > Len(s) THEN Len(s) ELSE b IN
    IF a >= hi THEN <<>> ELSE SubSeq(s, a + 1, hi)

\* Expression.operators
operators ==
    { <<"=", "=">>, <<"!", "=">>, <<">", "=">>, <<"<", "=">>, <<"&", "&">>,
      <<"|", "|">>, <<"&">>, <<"|">>, <<"-">>, <<"+">>, <<">">>, <<"<">>,
      <<"/">>, <<"*">> }

RECURSIVE ScanLoop(_, _, _, _)
\* the for loop of _scan_brackets at scanpos (0-based), with its else clause
ScanLoop(s, scanpos, startpos, scandepth) ==
    IF scanpos >= Len(s)
    THEN IF startpos # -1
         THEN [kind |-> "raise", exc |-> "ValueError", startpos |-> -1, endpos |-> -1]
         ELSE [kind |-> "return", exc |-> "", startpos |-> startpos, endpos |-> -1]
    ELSE LET scanchar == s[scanpos + 1] IN
         IF scanchar = "("
         THEN ScanLoop(s, scanpos + 1,
                       IF startpos = -1 THEN scanpos ELSE startpos, scandepth + 1)
         ELSE IF scanchar = ")"
         THEN IF scandepth - 1 = 0
              THEN [kind |-> "return", exc |-> "", startpos |-> startpos, endpos |-> scanpos]
              ELSE ScanLoop(s, scanpos + 1, startpos, scandepth - 1)
         ELSE ScanLoop(s, scanpos + 1, startpos, scandepth)

_scan_brackets(s) == ScanLoop(s, 0, -1, 0)

\* the operator that starts at op_start_pos, two being the two characters
\* from there and one the first of them
OpAmong(two, one, op_start_pos) ==
    IF two \in operators
    THEN [found |-> TRUE, op_str |-> two, op_end_pos |-> op_start_pos + 1]
    ELSE IF one \in operators
    THEN [found |-> TRUE, op_str |-> one, op_end_pos |-> op_start_pos]
    ELSE [found |-> FALSE, op_str |-> <<>>, op_end_pos |-> op_start_pos]

\* "for op_end_pos in range(op_start_pos + 1, op_start_pos - 1, -1)": the
\* two-character spelling is tried before the one-character one
OpAt(s, op_start_pos) ==
    OpAmong(Slice(s, op_start_pos, op_start_pos + 2),
            Slice(s, op_start_pos, op_start_pos + 1), op_start_pos)

RECURSIVE FirstOp(_, _)
\* the step of FirstOp at a character that is neither a blank nor a bracket
FirstOpHere(s, op_start_pos, o) ==
    IF o.found
    THEN [kind |-> "found", op_start_pos |-> op_start_pos,
          op_str |-> o.op_str, op_end_pos |-> o.op_end_pos]
    ELSE FirstOp(s, op_start_pos + 1)

\* the scan for the first operator of a text without a bracketed group
FirstOp(s, op_start_pos) ==
    IF op_start_pos >= Len(s)
    THEN [kind |-> "none", op_start_pos |-> op_start_pos, op_str |-> <<>>, op_end_pos |-> 0]
    ELSE IF s[op_start_pos + 1] = " " THEN FirstOp(s, op_start_pos + 1)
    ELSE IF s[op_start_pos + 1] \in {"(", ")"}
    THEN [kind |-> "raise", op_start_pos |-> op_start_pos, op_str |-> <<>>, op_end_pos |-> 0]
    ELSE FirstOpHere(s, op_start_pos, OpAt(s, op_start_pos))

RECURSIVE SkipBlanks(_, _)
\* "while op_start_pos < lenstr and expr_str[op_start_pos] == ' '"
SkipBlanks(s, pos) ==
    IF pos < Len(s) /\ s[pos + 1] = " " THEN SkipBlanks(s, pos + 1) ELSE pos

PartOk(left, op, right) ==
    [kind |-> "return", exc |-> "", left |-> left, op |-> op, right |-> right]
PartRaise == [kind |-> "raise", exc |-> "ValueError", left |-> <<>>, op |-> <<>>, right |-> <<>>]

RECURSIVE _partition(_)

\* a variant that accepts whatever follows the bracketed left side
PartitionAtOpLenient(expr_str, left_str, o) ==
    PartOk(left_str, o.op_str, Strip(Slice(expr_str, o.op_end_pos + 1, Len(expr_str))))

\* the operator o expected after the bracketed left side
PartitionAtOp(expr_str, left_str, o) ==
    IF o.found
    THEN PartOk(left_str, o.op_str,
                Strip(Slice(expr_str, o.op_end_pos + 1, Len(expr_str))))
    ELSE PartRaise

\* the text has a bracketed group whose contents are left_str; the next
\* token starts at op_start_pos
PartitionBracketed(expr_str, left_str, op_start_pos) ==
    IF op_start_pos < Len(expr_str)
    THEN PartitionAtOp(expr_str, left_str, OpAt(expr_str, op_start_pos))
    ELSE _partition(left_str)

\* the text has no bracketed group; f is the scan for its first operator
PartitionPlain(expr_str, f) ==
    IF f.kind = "raise" THEN PartRaise
    ELSE IF f.kind = "none" THEN PartOk(Strip(expr_str), <<>>, <<>>)
    ELSE PartOk(Strip(Slice(expr_str, 0, f.op_start_pos)), f.op_str,
                Strip(Slice(expr_str, f.op_end_pos + 1, Len(expr_str))))

\* _partition after "left_startpos, left_endpos = cls._scan_brackets(expr_str)"
PartitionScanned(expr_str, b) ==
    IF b.kind = "raise" THEN PartRaise
    ELSE IF b.startpos >= 0
    THEN PartitionBracketed(expr_str,
                            Strip(Slice(expr_str, b.startpos + 1, b.endpos)),
                            SkipBlanks(expr_str, b.endpos + 1))
    ELSE PartitionPlain(expr_str, FirstOp(expr_str, 0))

\* expr_str.strip().startswith('!')
StartsWithNot(stripped) == Len(stripped) > 0 /\ stripped[1] = "!"

\* (left_str, op_str, right_str); the None that the '!' case returns as right
\* side is the empty text here: __init__ only tests it for truth
_partition(expr_str) ==
    IF StartsWithNot(Strip(expr_str))
    THEN PartOk(LStrip(expr_str, {" ", "!"}), <<"!">>, <<>>)
    ELSE PartitionScanned(expr_str, _scan_brackets(expr_str))

\* str.find(sub) != -1
Contains(s, sub) ==
    \E i \in 0..(Len(s) - Len(sub)) : Slice(s, i, i + Len(sub)) = sub

HexChar(d) ==
    CASE d = 0 -> "0" [] d = 1 -> "1" [] d = 2 -> "2" [] d = 3 -> "3"
      [] d = 4 -> "4" [] d = 5 -> "5" [] d = 6 -> "6" [] d = 7 -> "7"
      [] d = 8 -> "8" [] d = 9 -> "9" [] d = 10 -> "A" [] d = 11 -> "B"
      [] d = 12 -> "C" [] d = 13 -> "D" [] d = 14 -> "E" [] d = 15 -> "F"

RECURSIVE Digits2Text(_, _)
\* the digits of n >= 0 in the given base, most significant first
Digits2Text(n, base) ==
    IF n < base THEN <<HexChar(n)>>
    ELSE Append(Digits2Text(n \div base, base), HexChar(n % base))

RECURSIVE ZeroPad(_, _)
ZeroPad(s, width) == IF Len(s) >= width THEN s ELSE ZeroPad(<<"0">> \o s, width)

\* "0x%08X" % n
Hex08(n) == <<"0", "x">> \o ZeroPad(Digits2Text(n, 16), 8)

\* str(n) for n >= 0
PyStr(n) == Digits2Text(n, 10)

\* re.compile("[0-9]+\\.[0-9]+\\.[0-9]+\\.[0-9]+").match(s): a prefix match
MverComponents(c) ==
    /\ Len(c) >= 4
    /\ IsDigits(c[1]) /\ IsDigits(c[2]) /\ IsDigits(c[3])
    /\ Len(c[4]) > 0 /\ c[4][1] \in Digits

MverMatch(s) == MverComponents(Split(s, "."))

\* re.compile("[0-9]+").match(s): a prefix match
IverMatch(s) == Len(s) > 0 /\ s[1] \in Digits

\* a terminal: _parse returns a str
Terminal(s) == [t |-> "str", s |-> s]
ExprRaise(e) == [t |-> "raise", exc |-> e]

RECURSIVE Expression(_)
RECURSIVE _parse(_)

\* a variant that stores the operands the other way round
MakeExpressionSwapped(expr_str, op, left, right) ==
    IF left.t = "raise" THEN left
    ELSE IF right.t = "raise" THEN right
    ELSE [t |-> "expr", _code |-> expr_str, _op |-> op, _left |-> right, _right |-> left]

\* the end of __init__: an exception of either _parse call leaves it
MakeExpression(expr_str, op, left, right) ==
    IF left.t = "raise" THEN left
    ELSE IF right.t = "raise" THEN right
    ELSE [t |-> "expr", _code |-> expr_str, _op |-> op, _left |-> left, _right |-> right]

\* __init__ after "left, self._op, right = self._partition(expr_str)"
FromPartition(expr_str, p) ==
    IF p.kind = "raise" THEN ExprRaise(p.exc)
    ELSE MakeExpression(expr_str, p.op, _parse(p.left),
                        IF p.right # <<>> THEN _parse(p.right) ELSE Terminal(<<>>))

\* Expression(expr_str): the tree, or the exception its construction raises.
\* Member builds every Expr with name_filter=None, which is what is modelled.
Expression(expr_str) == FromPartition(expr_str, _partition(expr_str))

\* a variant whose except clause catches every exception
VersionTerminalCatchAll(expr_str, v) ==
    IF v.kind = "raise" THEN Terminal(expr_str) ELSE Terminal(Hex08(v.val))

\* "return '0x%08X' % (version2number(expr_str))": only ValueError is caught
VersionTerminal(expr_str, v) ==
    IF v.kind = "raise"
    THEN IF v.exc = "ValueError" THEN Terminal(expr_str) ELSE ExprRaise(v.exc)
    ELSE Terminal(Hex08(v.val))

\* "return str(int(expr_str))"
IntTerminal(expr_str, v) ==
    IF v.kind = "raise" THEN Terminal(expr_str) ELSE Terminal(PyStr(v.val))

_parse(expr_str) ==
    IF \/ \E i \in 1..Len(expr_str) : expr_str[i] \in {"(", ")"}
       \/ \E op \in operators : Contains(expr_str, op)
    THEN Expression(expr_str)
    ELSE IF MverMatch(expr_str)
    THEN VersionTerminal(expr_str, version2number(expr_str))
    ELSE IF IverMatch(expr_str)
    THEN IntTerminal(expr_str, PyInt(expr_str))
    ELSE Terminal(expr_str)

\* Expression.__getattr__('lhs') / ('rhs') / ('op')
lhs(e) == e._left
rhs(e) == e._right


\* class Expr(Expression): __init__ only calls Expression.__init__
Expr(n) == Expression(n)

\* bool(x) of what lhs / rhs hold: a str is true when non-empty, an
\* Expression object is always true
Truthy(x) == x.t = "expr" \/ x.s # <<>>

\* x == s for what lhs / rhs hold and a str s: an Expression never equals a str
EqStr(x, s) == x.t = "str" /\ x.s = s

\* x.isdigit(): str.isdigit, or Expression.isdigit which returns False
isdigit(x) == x.t = "str" /\ IsDigits(x.s)

(***************************************************************************)
(* Expression.eval.  A value is an int, a float or the empty str, the only *)
(* str eval can produce (from the terminal "").  A bool is the int 0 or 1: *)
(* bool is a subclass of int and every operator of eval treats it so.  A   *)
(* float is held as the fraction n/d in lowest terms with d > 0; the       *)
(* divisions drawn have quotients that binary floating point holds exactly.*)
(***************************************************************************)
IntVal(n) == [ty |-> "int", n |-> n, d |-> 1]
StrVal == [ty |-> "str", n |-> 0, d |-> 1]

Abs(n) == IF n < 0 THEN 0 - n ELSE n

RECURSIVE GCD(_, _)
GCD(a, b) == IF b = 0 THEN a ELSE GCD(b, a % b)

\* n/d with d # 0, in lowest terms with a positive denominator
Fraction(ty, n, d, g) ==
    [ty |-> ty, n |-> (IF d < 0 THEN 0 - n ELSE n) \div g, d |-> Abs(d) \div g]

FloatVal(n, d) == Fraction("float", n, d, GCD(Abs(n), Abs(d)))

\* the outcome of an evaluation
EvReturn(v) == [kind |-> "return", val |-> v, exc |-> ""]
EvRaise(e) == [kind |-> "raise", val |-> IntVal(0), exc |-> e]

\* no object given to eval, and an object with the attributes bound
NoData == [none |-> TRUE, bound |-> <<>>]
Object(bound) == [none |-> FALSE, bound |-> bound]

\* getattr(data, name): data is None or an object with the attributes bound;
\* the names drawn are not attributes of None or of object
getattr(data, name) ==
    IF data.none \/ name \notin DOMAIN data.bound THEN EvRaise("AttributeError")
    ELSE EvReturn(data.bound[name])

IsNum(v) == v.ty \in {"int", "float"}

\* bool(v)
Truth(v) == v.ty # "str" /\ v.n # 0

\* the type of the result of -, + and * on two numbers
NumType(l, r) == IF l.ty = "int" /\ r.ty = "int" THEN "int" ELSE "float"

\* a number of the type given; the value of an int has denominator 1
NumVal(ty, n, d) == IF ty = "int" THEN IntVal(n) ELSE FloatVal(n, d)

\* l == r
PyEq(l, r) ==
    IF l.ty = "str" \/ r.ty = "str" THEN l.ty = r.ty
    ELSE l.n * r.d = r.n * l.d

\* int(v)
IntOf(v) ==
    IF v.ty = "str" THEN EvRaise("ValueError")
    ELSE IF v.n < 0 THEN EvReturn(IntVal(0 - ((0 - v.n) \div v.d)))
    ELSE EvReturn(IntVal(v.n \div v.d))

Bool01(b) == EvReturn(IntVal(IF b THEN 1 ELSE 0))

\* l >= r when ge, l <= r otherwise: two numbers or two str
Ordered(l, r, ge) ==
    IF l.ty = "str" /\ r.ty = "str" THEN Bool01(TRUE)
    ELSE IF l.ty = "str" \/ r.ty = "str" THEN EvRaise("TypeError")
    ELSE IF ge THEN Bool01(l.n * r.d >= r.n * l.d)
    ELSE Bool01(l.n * r.d <= r.n * l.d)

RECURSIVE BitAnd(_, _)
\* a & b on Python's integers (two's complement of unbounded width)
BitAnd(a, b) ==
    IF a = 0 \/ b = 0 THEN 0
    ELSE IF a = 0 - 1 THEN b
    ELSE IF b = 0 - 1 THEN a
    ELSE 2 * BitAnd(a \div 2, b \div 2) + ((a % 2) * (b % 2))

RECURSIVE BitOr(_, _)
\* a | b on Python's integers
BitOr(a, b) ==
    IF a = 0 THEN b
    ELSE IF b = 0 THEN a
    ELSE IF a = 0 - 1 \/ b = 0 - 1 THEN 0 - 1
    ELSE 2 * BitOr(a \div 2, b \div 2) + (IF a % 2 = 1 \/ b % 2 = 1 THEN 1 ELSE 0)

\* l & r and l | r: defined on two ints only
Bitwise(op, l, r) ==
    IF l.ty # "int" \/ r.ty # "int" THEN EvRaise("TypeError")
    ELSE IF op = <<"&">> THEN EvReturn(IntVal(BitAnd(l.n, r.n)))
    ELSE EvReturn(IntVal(BitOr(l.n, r.n)))

\* l - r, l + r, l * r, l / r
Arithmetic(op, l, r) ==
    IF IsNum(l) /\ IsNum(r)
    THEN CASE op = <<"-">> ->
                EvReturn(NumVal(NumType(l, r), l.n * r.d - r.n * l.d, l.d * r.d))
           [] op = <<"+">> ->
                EvReturn(NumVal(NumType(l, r), l.n * r.d + r.n * l.d, l.d * r.d))
           [] op = <<"*">> ->
                EvReturn(NumVal(NumType(l, r), l.n * r.n, l.d * r.d))
           [] op = <<"/">> ->
                IF r.n = 0 THEN EvRaise("ZeroDivisionError")
                ELSE EvReturn(FloatVal(l.n * r.d, l.d * r.n))
    ELSE IF op = <<"+">> /\ l.ty = "str" /\ r.ty = "str" THEN EvReturn(StrVal)
    ELSE IF op = <<"*">> /\ (l.ty = "int" \/ r.ty = "int") THEN EvReturn(StrVal)
    ELSE EvRaise("TypeError")

\* the chain "if self._op == '==': ... else: raise NotImplementedError"
ApplyOp(op, l, r) ==
    CASE op = <<"=", "=">> -> Bool01(PyEq(l, r))
      [] op = <<"!", "=">> -> Bool01(~PyEq(l, r))
      [] op = <<">", "=">> -> Ordered(l, r, TRUE)
      [] op = <<"<", "=">> -> Ordered(l, r, FALSE)
      [] op = <<"&", "&">> -> IntOf(IF Truth(l) THEN r ELSE l)
      [] op = <<"|", "|">> -> IntOf(IF Truth(l) THEN l ELSE r)
      [] op \in {<<"&">>, <<"|">>} -> Bitwise(op, l, r)
      [] op \in {<<"-">>, <<"+">>, <<"/">>, <<"*">>} -> Arithmetic(op, l, r)
      [] op = <<"!">> -> Bool01(~Truth(l))
      [] OTHER -> EvRaise("NotImplementedError")

\* the terminal that is the two characters ""
QuotedEmpty == <<"\"", "\"">>

RECURSIVE eval(_, _)
\* the value of self._left or self._right: an Expression is evaluated, a str
\* is looked up in data unless it is the terminal ""
Operand(x, data) ==
    IF x.t = "expr" THEN eval(x, data)
    ELSE IF x.s # QuotedEmpty THEN getattr(data, x.s)
    ELSE EvReturn(StrVal)

\* eval once right has been evaluated
EvalRight(self, l, right) ==
    IF right.kind = "raise" THEN right ELSE ApplyOp(self._op, l, right.val)

\* eval once left has been evaluated: "if not self._op: return left"
EvalLeft(self, data, left) ==
    IF left.kind = "raise" THEN left
    ELSE IF self._op = <<>> THEN left
    ELSE EvalRight(self, left.val, Operand(self._right, data))

\* Expression.eval(self, data=None)
eval(self, data) == EvalLeft(self, data, Operand(self._left, data))

(***************************************************************************)
(* Expression.code.  name_filter is None or the identity: either way a     *)
(* name is rendered unchanged.                                             *)
(***************************************************************************)
CodeReturn(text) == [kind |-> "return", text |-> text, exc |-> ""]
CodeRaise(e) == [kind |-> "raise", text |-> <<>>, exc |-> e]

\* 'IsDerivedType(%s::TYPE)' % name
IsDerivedType(name) ==
    <<"I", "s", "D", "e", "r", "i", "v", "e", "d", "T", "y", "p", "e", "(">>
        \o name \o <<":", ":", "T", "Y", "P", "E", ")">>

\* s.startswith('0x')
StartsWith0x(s) == Len(s) >= 2 /\ s[1] = "0" /\ s[2] = "x"

RECURSIVE code(_, _, _, _)
\* lhs or rhs as rendered in the branches with an operator
OperandCode(x, prefix, TYPES_BLOCK) ==
    IF x.t = "expr" THEN code(x, prefix, TRUE, TYPES_BLOCK)
    ELSE IF x.s \in DOMAIN TYPES_BLOCK THEN CodeReturn(IsDerivedType(x.s))
    ELSE IF x.s # <<>> /\ ~IsDigits(x.s) /\ ~StartsWith0x(x.s)
    THEN CodeReturn(prefix \o x.s)
    ELSE CodeReturn(x.s)

\* "if not self._op": the expression is one terminal
CodeOfTerminal(x, prefix, TYPES_BLOCK) ==
    IF ~Truthy(x) THEN CodeReturn(<<>>)
    ELSE IF x.t = "expr" THEN CodeRaise("TypeError")
    ELSE IF x.s \in DOMAIN TYPES_BLOCK THEN CodeReturn(IsDerivedType(x.s))
    ELSE CodeReturn(prefix \o x.s)

\* '%s%s%s%s' % (lbracket, self._op, lhs, rbracket)
CodeOfNot(op, l, brackets) ==
    IF l.kind = "raise" THEN l
    ELSE CodeReturn((IF brackets THEN <<"(">> ELSE <<>>) \o op \o l.text
                    \o (IF brackets THEN <<")">> ELSE <<>>))

\* '%s%s %s %s%s' % (lbracket, lhs, self._op, rhs, rbracket)
CodeOfBinary(op, l, r, brackets) ==
    IF l.kind = "raise" THEN l
    ELSE IF r.kind = "raise" THEN r
    ELSE CodeReturn((IF brackets THEN <<"(">> ELSE <<>>) \o l.text \o <<" ">> \o op
                    \o <<" ">> \o r.text \o (IF brackets THEN <<")">> ELSE <<>>))

\* Expression.code(self, prefix, brackets, name_filter)
code(self, prefix, brackets, TYPES_BLOCK) ==
    IF self._op = <<>> THEN CodeOfTerminal(self._left, prefix, TYPES_BLOCK)
    ELSE IF self._op = <<"!">>
    THEN CodeOfNot(self._op, OperandCode(self._left, prefix, TYPES_BLOCK), brackets)
    ELSE CodeOfBinary(self._op, OperandCode(self._left, prefix, TYPES_BLOCK),
                      OperandCode(self._right, prefix, TYPES_BLOCK), brackets)

(***************************************************************************)
(* Member                                                                  *)
(***************************************************************************)
\* the exception Expr(text) or version2number(text) raises, "" when the call
\* returns; call is [f, text]
ExcOfExpr(e) == IF e.t = "raise" THEN e.exc ELSE ""
ExcOfVersion(v) == IF v.kind = "raise" THEN v.exc ELSE ""
CallExc(call) ==
    IF call.f = "Expr" THEN ExcOfExpr(Expr(call.text))
    ELSE ExcOfVersion(version2number(call.text))

RECURSIVE FirstRaise(_)
\* the first exception among calls made in this order, or "" when none raises
FirstRaise(calls) ==
    IF Len(calls) = 0 THEN ""
    ELSE IF CallExc(calls[1]) # "" THEN CallExc(calls[1])
    ELSE FirstRaise(Tail(calls))

ExprCall(text) == [f |-> "Expr", text |-> text]
VersionCall(text) == [f |-> "version2number", text |-> text]

\* the calls of Member.__init__ on adds[i] that can raise, in the order it
\* makes them: its own attributes, then the previousSibling walk (length and
\* width of each), then the nextSibling walk (length, width and cond of each)
MemberCalls(adds, i) ==
    << ExprCall(adds[i].length), ExprCall(adds[i].width), ExprCall(adds[i].cond),
       VersionCall(adds[i].since), VersionCall(adds[i].until),
       ExprCall(adds[i].vercond) >>
    \o [k \in 1..(2 * (i - 1)) |->
            IF k % 2 = 1 THEN ExprCall(adds[i - ((k + 1) \div 2)].length)
            ELSE ExprCall(adds[i - ((k + 1) \div 2)].width)]
    \o [k \in 1..(3 * (Len(adds) - i)) |->
            IF k % 3 = 1 THEN ExprCall(adds[i + ((k + 2) \div 3)].length)
            ELSE IF k % 3 = 2 THEN ExprCall(adds[i + ((k + 2) \div 3)].width)
            ELSE ExprCall(adds[i + ((k + 2) \div 3)].cond)]

\* the exception Member(adds[i]) raises, "" when it returns
MemberExc(adds, i) == FirstRaise(MemberCalls(adds, i))

\* a variant of the test that does not look at the right operand
IsRefAnyRhs(self, e, ref) == EqStr(lhs(e), self.name)

\* the test of one sibling in the nextSibling walk, e being its length, width
\* or cond as ref tells: cond_ref does not look at the right operand
IsRef(self, e, ref) ==
    /\ EqStr(lhs(e), self.name)
    /\ ref = "cond_ref" \/ ~Truthy(rhs(e)) \/ isdigit(rhs(e))

\* the attribute of a sibling that the list named by ref looks at
RefText(sib, ref) ==
    CASE ref = "length_ref" -> sib.length
      [] ref = "width_ref" -> sib.width
      [] ref = "cond_ref" -> sib.cond

RECURSIVE SelectNames(_, _, _, _)
\* the nextSibling walk from adds[j] on: the names appended to the list
\* named by ref ("length_ref", "width_ref" or "cond_ref"), in document order
SelectNames(adds, j, self, ref) ==
    IF j > Len(adds) THEN <<>>
    ELSE (IF IsRef(self, Expr(RefText(adds[j], ref)), ref)
          THEN <<adds[j].name>> ELSE <<>>)
         \o SelectNames(adds, j + 1, self, ref)

ARG == <<"(", "A", "R", "G", ")">>

\* Member.__init__ after length, width and cond have been parsed.  obj is the
\* identity of the new object: Member defines no __eq__, so two members are
\* equal only when they are the same object.  default is the declared
\* attribute here; SetDefault gives it its final value.
MemberOf(owner, adds, i, el, length, width, cond) ==
    [ obj |-> <<owner, i>>,
      name |-> el.name, suffix |-> el.suffix, type |-> el.type,
      length |-> length, width |-> width, cond |-> cond,
      default |-> el.default,
      orig_since |-> el.since, orig_until |-> el.until,
      since |-> version2number(el.since), until |-> version2number(el.until),
      vercond |-> Expr(el.vercond),
      next_dup |-> None,
      uses_argument |-> (EqStr(lhs(cond), ARG) \/ EqStr(lhs(length), ARG)
                            \/ EqStr(lhs(width), ARG)),
      is_duplicate |-> (\E j \in 1..(i - 1) :
                            adds[j].name = el.name /\ el.suffix = <<>>),
      width_dynamic |-> (\E j \in 1..(i - 1) :
                            /\ EqStr(lhs(width), adds[j].name)
                            /\ Truthy(lhs(Expr(adds[j].length)))),
      length_ref |-> SelectNames(adds, i + 1, el, "length_ref"),
      width_ref |-> SelectNames(adds, i + 1, el, "width_ref"),
      cond_ref |-> SelectNames(adds, i + 1, el, "cond_ref") ]

\* Member(adds[i]) when it does not raise
Member(owner, adds, i) ==
    MemberOf(owner, adds, i, adds[i], Expr(adds[i].length), Expr(adds[i].width),
             Expr(adds[i].cond))

(***************************************************************************)
(* The default literal of a Member                                         *)
(***************************************************************************)
t_float == <<"f", "l", "o", "a", "t">>
t_bool == <<"b", "o", "o", "l">>
t_string == <<"s", "t", "r", "i", "n", "g">>
t_TEMPLATE == <<"T", "E", "M", "P", "L", "A", "T", "E">>
IntegerFamily == { <<"u", "n", "s", "i", "g", "n", "e", "d", " ", "i", "n", "t">>,
                   <<"u", "n", "s", "i", "g", "n", "e", "d", " ", "s", "h", "o", "r", "t">>,
                   <<"b", "y", "t", "e">>, <<"i", "n", "t">>,
                   <<"s", "h", "o", "r", "t">>,
                   <<"c", "h", "a", "r">> }
RefFamily == { <<"R", "e", "f">>, <<"P", "t", "r">> }
Unformatted == RefFamily \cup { t_bool, <<"V", "e", "c", "t", "o", "r", "3">> }

\* s.replace(old, new) for one-character old and new
ReplaceChar(s, old, new) ==
    [i \in 1..Len(s) |-> IF s[i] = old THEN new ELSE s[i]]

\* class_name(name_in): TYPES_NATIVE holds 'TEMPLATE' and, parse_xml being
\* called with ntypes=None, the cname of every Enum and Flag built so far,
\* which is the value the KeyError handler computes for that name
class_name(name_in) ==
    IF name_in = t_TEMPLATE THEN <<"T">>
    ELSE ReplaceChar(ReplaceChar(name_in, " ", "_"), ":", "_")

\* Python's "sub in s" for strings
IsSubstring(sub, s) ==
    \E i \in 0..(Len(s) - Len(sub)) : SubSeq(s, i + 1, i + Len(sub)) = sub

\* the chain of tests at the head of "Format default value": the literal for
\* a member of this type without a declared default, a length or a width
SynthDefault(type, NAMES_BASIC, NAMES_FLAG, NAMES_ENUM) ==
    IF type \in IntegerFamily THEN <<"0">>
    ELSE IF type = t_bool THEN <<"f", "a", "l", "s", "e">>
    ELSE IF type \in RefFamily THEN <<"N", "U", "L", "L">>
    ELSE IF IsSubstring(type, t_float) THEN <<"0", ".", "0">>
    ELSE IF type = <<"H", "e", "a", "d", "e", "r", "S", "t", "r", "i", "n", "g">> THEN <<>>
    ELSE IF type = <<"C", "h", "a", "r", "8", "S", "t", "r", "i", "n", "g">> THEN <<>>
    ELSE IF type = <<"S", "t", "r", "i", "n", "g", "O", "f", "f", "s", "e", "t">> THEN <<"-", "1">>
    ELSE IF \E i \in 1..Len(NAMES_BASIC) : NAMES_BASIC[i] = type THEN <<"0">>
    ELSE IF \/ \E i \in 1..Len(NAMES_FLAG) : NAMES_FLAG[i] = type
            \/ \E i \in 1..Len(NAMES_ENUM) : NAMES_ENUM[i] = type
    THEN <<"0">>
    ELSE <<>>

\* "if self.default[0] == '(' and self.default[-1] == ')'"
StripParens(default) ==
    IF default[1] = "(" /\ default[Len(default)] = ")"
    THEN SubSeq(default, 2, Len(default) - 1)
    ELSE default

RECURSIVE SplitMax(_, _, _, _)
\* s.split(sep, maxsplit) continued: cur is the component being collected
SplitMax(s, sep, maxsplit, cur) ==
    IF Len(s) = 0 THEN <<cur>>
    ELSE IF maxsplit = 0 THEN <<cur \o s>>
    ELSE IF s[1] = sep THEN <<cur>> \o SplitMax(Tail(s), sep, maxsplit - 1, <<>>)
    ELSE SplitMax(Tail(s), sep, maxsplit, Append(cur, s[1]))

RECURSIVE Join(_, _)
\* sep.join(parts)
Join(sep, parts) ==
    IF Len(parts) = 1 THEN parts[1]
    ELSE parts[1] \o sep \o Join(sep, Tail(parts))

\* the static array default: the length, then each value under a cast
ArrayDefault(default, n, sep) ==
    n \o sep \o Join(sep, SplitMax(default, " ", DecVal(n), <<>>))

RECURSIVE StripLeadingZeros(_)
\* s without its leading zeros, the last one kept
StripLeadingZeros(s) ==
    IF Len(s) > 1 /\ s[1] = "0" THEN StripLeadingZeros(Tail(s)) ELSE s

RECURSIVE StripTrailingZeros(_)
\* s without its trailing zeros, the first one kept
StripTrailingZeros(s) ==
    IF Len(s) > 1 /\ s[Len(s)] = "0"
    THEN StripTrailingZeros(SubSeq(s, 1, Len(s) - 1)) ELSE s

\* str(float(s)) for a decimal literal of a few digits, with or without a
\* fraction; the documents declare no other default for a float
FloatStr(s) ==
    IF \E i \in 1..Len(s) : s[i] = "."
    THEN StripLeadingZeros(Split(s, ".")[1]) \o <<".">>
            \o StripTrailingZeros(Split(s, ".")[2])
    ELSE StripLeadingZeros(s) \o <<".", "0">>

\* "if self.default:" to the end of the statement; the documents declare a
\* default only for members whose length is a plain name or number
FormatDefault(default, type, length) ==
    IF default = <<>> THEN <<>>
    ELSE IF Truthy(lhs(length))
    THEN IF isdigit(lhs(length))
         THEN ArrayDefault(StripParens(default), lhs(length).s,
                           <<",", "(">> \o class_name(type) \o <<")">>)
         ELSE StripParens(default)
    ELSE IF type \in {t_string, <<"I", "n", "d", "e", "x", "S", "t", "r", "i", "n", "g">>}
    THEN <<"\"">> \o StripParens(default) \o <<"\"">>
    ELSE IF type = t_float THEN FloatStr(StripParens(default)) \o <<"f">>
    ELSE IF type \in Unformatted THEN StripParens(default)
    ELSE IF \E i \in 1..Len(StripParens(default)) : StripParens(default)[i] = ","
    THEN StripParens(default)
    ELSE <<"(">> \o class_name(type) \o <<")">> \o StripParens(default)

\* "Format default value so that it can be used in a C++ initializer list":
\* the member with its default synthesized and formatted
SetDefault(m, NAMES_BASIC, NAMES_FLAG, NAMES_ENUM) ==
    [m EXCEPT !.default =
        FormatDefault(IF m.default = <<>> /\ ~Truthy(lhs(m.length))
                            /\ ~Truthy(lhs(m.width))
                      THEN SynthDefault(m.type, NAMES_BASIC, NAMES_FLAG, NAMES_ENUM)
                      ELSE m.default,
                      m.type, m.length)]

(***************************************************************************)
(* Version, Basic, Enum, Flag, Struct, Block                               *)
(* A constructor gives [exc, inst]: the exception it raises ("" when it    *)
(* returns) and the instance.  parse_xml is called with ntypes=None, so    *)
(* nativetype, has_links and has_crossrefs stay unset; options of enums    *)
(* are not modelled.                                                       *)
(***************************************************************************)
Built(inst) == [exc |-> "", inst |-> inst]
Failed(e) == [exc |-> e, inst |-> [name |-> <<>>]]

\* Version(element): element.firstChild is None when the node has no text
Version(element) ==
    IF ~element.text THEN Failed("AttributeError")
    ELSE Built([name |-> element.id])

\* Basic(element, ntypes): "assert self.name"
Basic(element) ==
    IF element.name = <<>> THEN Failed("AssertionError")
    ELSE Built([name |-> element.name])

\* Enum.__init__ after Basic.__init__, which raised exc or returned
EnumInit(element, TYPES_BASIC, exc) ==
    IF exc # "" THEN Failed(exc)
    ELSE IF element.storage \notin DOMAIN TYPES_BASIC THEN Failed("KeyError")
    ELSE IF ~element.text THEN Failed("AttributeError")
    ELSE Built([name |-> element.name,
                storage |-> TYPES_BASIC[element.storage].name])

\* Enum(element, ntypes): the storage type is looked up in TYPES_BASIC
Enum(element, TYPES_BASIC) == EnumInit(element, TYPES_BASIC, Basic(element).exc)

\* Flag(element, ntypes)
Flag(element, TYPES_BASIC) == Enum(element, TYPES_BASIC)

\* "x in self.members": list membership by ==, which is identity for Member
MemberIn(x, members) == \E k \in 1..Len(members) : members[k].obj = x.obj

\* the body of the loop for the new Member x: skipped when already in the
\* list, else appended, and self.argument = bool(x.uses_argument)
AddMember(self, x) ==
    IF MemberIn(x, self.members) THEN self
    ELSE [self EXCEPT !.members = Append(@, x), !.argument = x.uses_argument]

RECURSIVE AddMembers(_, _, _, _)
\* one iteration, exc being what Member(adds[i]) raises
AddMembersStep(owner, adds, i, self, exc) ==
    IF exc # "" THEN Failed(exc)
    ELSE AddMembers(owner, adds, i + 1, AddMember(self, Member(owner, adds, i)))

\* the loop "for member in element.getElementsByTagName('add')" from the
\* i-th element on; self holds members and argument
AddMembers(owner, adds, i, self) ==
    IF i > Len(adds) THEN Built(self)
    ELSE AddMembersStep(owner, adds, i, self, MemberExc(adds, i))

RECURSIVE InnerLoop(_, _, _, _)
\* "for inner in self.members" from the j-th member on: the next_dup of outer
InnerLoop(members, outer, j, atx) ==
    IF j > Len(members) THEN None
    ELSE IF atx
    THEN IF outer.name = members[j].name THEN members[j].obj
         ELSE InnerLoop(members, outer, j + 1, atx)
    ELSE InnerLoop(members, outer, j + 1, outer.obj = members[j].obj)

\* a variant that links every member to the first member of its name
DupChainsFromFirst(members) ==
    [k \in 1..Len(members) |->
        [members[k] EXCEPT !.next_dup = InnerLoop(members, members[k], 1, TRUE)]]

\* the duplicate chains built at the end of Struct.__init__
DupChains(members) ==
    [k \in 1..Len(members) |->
        [members[k] EXCEPT !.next_dup = InnerLoop(members, members[k], 1, FALSE)]]

\* the end of Struct.__init__, r being the outcome of the member loop
WithDupChains(r) ==
    IF r.exc # "" THEN r
    ELSE Built([r.inst EXCEPT !.members = DupChains(@)])

\* Struct.__init__ after Basic.__init__, which raised exc or returned
StructMembers(tag, element, exc) ==
    IF exc # "" THEN Failed(exc)
    ELSE WithDupChains(AddMembers(<<tag, element.name>>, element.adds, 1,
                                  [name |-> element.name, members |-> <<>>,
                                   argument |-> FALSE]))

\* Struct(element, ntypes); tag tells the objects of a struct from those of
\* a niobject of the same name
StructInit(tag, element) == StructMembers(tag, element, Basic(element).exc)

Struct(element) == StructInit("struct", element)

\* a variant of the lookup that keeps the name without reading the registry
LookupInheritUnchecked(inherit, TYPES_BLOCK) ==
    [exc |-> "", inherit |-> IF inherit = <<>> THEN None ELSE inherit]

\* "TYPES_BLOCK[inherit] if inherit else None": the parent, as the name under
\* which that Block object is registered; [exc, inherit]
LookupInherit(inherit, TYPES_BLOCK) ==
    IF inherit = <<>> THEN [exc |-> "", inherit |-> None]
    ELSE IF inherit \notin DOMAIN TYPES_BLOCK THEN [exc |-> "KeyError", inherit |-> None]
    ELSE [exc |-> "", inherit |-> TYPES_BLOCK[inherit].name]

\* Block.__init__ after Struct.__init__ (s) with the parent looked up (p)
BlockInit(s, p) ==
    IF s.exc # "" THEN s
    ELSE IF p.exc # "" THEN Failed(p.exc)
    ELSE Built([name |-> s.inst.name, members |-> s.inst.members,
                argument |-> s.inst.argument, inherit |-> p.inherit])

\* Block(element, ntypes)
Block(element, TYPES_BLOCK) ==
    BlockInit(StructInit("niobject", element),
              LookupInherit(element.inherit, TYPES_BLOCK))

(***************************************************************************)
(* Queries on a finished model                                             *)
(***************************************************************************)
\* None where a Member is expected
NoMember == [obj |-> None]

RECURSIVE FindFrom(_, _, _)
\* "for mem in self.members: if mem.name == name: return mem" from index k
FindFrom(members, name, k) ==
    IF k > Len(members) THEN NoMember
    ELSE IF members[k].name = name THEN members[k]
    ELSE FindFrom(members, name, k + 1)

\* Struct.find_member(self, name, inherit=False): inherit is not used
Struct_find_member(self, name, inherit) == FindFrom(self.members, name, 1)

RECURSIVE Block_find_member(_, _, _, _)
\* a variant of Block.find_member that asks the parent whatever inherit is
Block_find_member_always(self, name, inherit, TYPES_BLOCK) ==
    IF Struct_find_member(self, name, FALSE) = NoMember /\ self.inherit # None
    THEN Block_find_member(TYPES_BLOCK[self.inherit], name, inherit, TYPES_BLOCK)
    ELSE Struct_find_member(self, name, FALSE)

\* Block.find_member(self, name, inherit=False); self.inherit is dereferenced
\* through the registry that holds the parent object
Block_find_member(self, name, inherit, TYPES_BLOCK) ==
    LET ret == Struct_find_member(self, name, FALSE) IN
    IF ret = NoMember /\ inherit /\ self.inherit # None
    THEN Block_find_member(TYPES_BLOCK[self.inherit], name, inherit, TYPES_BLOCK)
    ELSE ret

RECURSIVE AncestorsLoop(_, _, _, _)
\* "while parent: ancestors.append(parent); parent = parent.inherit".  A walk
\* that makes more iterations than there are Block objects has met one of
\* them twice and never ends: it is reported as kind "diverges".
AncestorsLoop(parent, list, TYPES_BLOCK, fuel) ==
    IF parent = None THEN [kind |-> "return", val |-> list]
    ELSE IF fuel = 0 THEN [kind |-> "diverges", val |-> list]
    ELSE AncestorsLoop(TYPES_BLOCK[parent].inherit, Append(list, parent),
                       TYPES_BLOCK, fuel - 1)

\* a variant of Block.ancestors that starts the walk at the parent
ancestors_of_parent(self, TYPES_BLOCK) ==
    AncestorsLoop(self.inherit, <<>>, TYPES_BLOCK, Cardinality(DOMAIN TYPES_BLOCK))

\* Block.ancestors(self): the Blocks are given by the names they are
\* registered under
ancestors(self, TYPES_BLOCK) ==
    AncestorsLoop(self.name, <<>>, TYPES_BLOCK, Cardinality(DOMAIN TYPES_BLOCK))

\* a bool returned, or an exception raised, by has_arr
BoolReturn(b) == [kind |-> "return", val |-> b, exc |-> ""]
BoolRaise(e) == [kind |-> "raise", val |-> FALSE, exc |-> e]

RECURSIVE HasArrFrom(_, _, _, _)
\* the k-th member has no length and its type is a Struct whose has_arr()
\* gave r: an exception leaves the loop, True is returned, False goes on
HasArrOfType(members, k, TYPES_STRUCT, depth, r) ==
    IF r.kind = "raise" THEN r
    ELSE IF r.val THEN BoolReturn(TRUE)
    ELSE HasArrFrom(members, k + 1, TYPES_STRUCT, depth)

\* "for mem in self.members" from the k-th member on, in the depth-th nested
\* call of has_arr
HasArrFrom(members, k, TYPES_STRUCT, depth) ==
    IF k > Len(members) THEN BoolReturn(FALSE)
    ELSE IF Truthy(lhs(members[k].length)) THEN BoolReturn(TRUE)
    ELSE IF members[k].type \notin DOMAIN TYPES_STRUCT
    THEN HasArrFrom(members, k + 1, TYPES_STRUCT, depth)
    ELSE IF depth >= RecursionLimit THEN BoolRaise("RecursionError")
    ELSE HasArrOfType(members, k, TYPES_STRUCT, depth,
                      HasArrFrom(TYPES_STRUCT[members[k].type].members, 1,
                                 TYPES_STRUCT, depth + 1))

\* Struct.has_arr(self), which Block inherits
has_arr(self, TYPES_STRUCT) == HasArrFrom(self.members, 1, TYPES_STRUCT, 1)

(***************************************************************************)
(* Documents: what xml.dom.minidom hands to parse_xml.  A node is the      *)
(* record of its attributes (a missing attribute reads as the empty text); *)
(* text tells whether the node has a text child.                           *)
(***************************************************************************)
t_V1 == <<"V", "1">>
t_V2 == <<"V", "2">>
t_int == <<"i", "n", "t">>
t_int2 == <<"i", "n", "t", "2">>
t_E == <<"E">>
t_E2 == <<"E", "2">>
t_F == <<"F">>
t_F2 == <<"F", "2">>
t_S == <<"S">>
t_S2 == <<"S", "2">>
t_Root == <<"R", "o", "o", "t">>
t_Mid == <<"M", "i", "d">>
t_Leaf == <<"L", "e", "a", "f">>
t_Top2 == <<"T", "o", "p", "2">>
t_Mid2 == <<"M", "i", "d", "2">>
t_f == <<"f">>
t_k == <<"k">>
t_h == <<"h">>
t_n == <<"n">>
t_arr == <<"a", "r", "r">>
t_A == <<"A">>
t_B == <<"B">>
t_C == <<"C">>
t_D == <<"D">>
t_G == <<"G">>
t_Z == <<"Z">>
t_P == <<"P">>
t_Q == <<"Q">>
t_U == <<"U">>
t_x == <<"x">>
t_y == <<"y">>
t_z == <<"z">>

\* an <add> element with the attributes given and all others absent
Add(name, type, length, cond) ==
    [ name |-> name, suffix |-> <<>>, type |-> type, length |-> length,
      width |-> <<>>, cond |-> cond, vercond |-> <<>>, since |-> <<>>,
      until |-> <<>>, default |-> <<>> ]

\* an <add> element that declares a default
AddDefault(name, type, length, default) ==
    [Add(name, type, length, <<>>) EXCEPT !.default = default]

VersionNode(id) == [id |-> id, text |-> TRUE]
BasicNode(name) == [name |-> name]
EnumNode(name, storage) == [name |-> name, storage |-> storage, text |-> TRUE]
StructNode(name, adds) == [name |-> name, adds |-> adds]
BlockNode(name, inherit, adds) == [name |-> name, inherit |-> inherit, adds |-> adds]

\* a schema that loads: every category present, a chain Root <- Mid <- Leaf
BaseDocument ==
    [ version |-> MIN_XML_VERSION,
      versions |-> << VersionNode(t_V1) >>,
      basics |-> << BasicNode(t_int) >>,
      enums |-> << EnumNode(t_E, t_int) >>,
      bitflags |-> << EnumNode(t_F, t_int) >>,
      structs |-> << StructNode(t_S, << Add(t_n, t_int, <<>>, <<>>),
                                        Add(t_arr, t_int, t_n, <<>>) >>) >>,
      niobjects |-> << BlockNode(t_Root, <<>>, << Add(t_f, t_int, <<>>, <<>>),
                                                  Add(t_k, t_int, <<>>, <<>>) >>),
                       BlockNode(t_Mid, t_Root, << Add(t_k, t_E, <<>>, <<>>) >>),
                       BlockNode(t_Leaf, t_Mid, << Add(t_h, t_int, <<>>, <<>>),
                                                   Add(t_h, t_E, <<>>, t_k) >>) >> ]

\* a second schema that loads, sharing no name with the first
OtherDocument ==
    [ version |-> <<"1", ".", "0">>,
      versions |-> << VersionNode(t_V2) >>,
      basics |-> << BasicNode(t_int2) >>,
      enums |-> << EnumNode(t_E2, t_int2) >>,
      bitflags |-> << EnumNode(t_F2, t_int2) >>,
      structs |-> << StructNode(t_S2, << Add(t_n, t_int2, <<>>, <<>>) >>) >>,
      niobjects |-> << BlockNode(t_Top2, <<>>, << Add(t_f, t_E2, <<>>, <<>>) >>) >> ]

\* the same without bitflags, its Block naming a parent it does not define
OtherNoFlags ==
    [OtherDocument EXCEPT !.bitflags = <<>>,
                          !.niobjects = << BlockNode(t_Mid2, t_Root, <<>>) >>]

\* root versions: below the minimum in four components, below it in the
\* short form, and absent
RootVersions ==
    { <<"0", ".", "9", ".", "0", ".", "0">>, <<"0", ".", "9">>, <<>> }

VersionLists ==
    { << VersionNode(t_V1), VersionNode(t_V1) >>, <<>>,
      << VersionNode(<<>>) >>, << [id |-> t_V1, text |-> FALSE] >> }

BasicLists ==
    { << BasicNode(t_int), BasicNode(t_int) >>, <<>>, << BasicNode(<<>>) >> }

EnumLists ==
    { << EnumNode(t_E, t_F) >>, << EnumNode(t_E, t_int), EnumNode(t_E, t_int) >>,
      <<>>, << [name |-> t_E, storage |-> t_int, text |-> FALSE] >> }

FlagLists ==
    { <<>>, << EnumNode(t_F, t_int), EnumNode(t_F, t_int) >> }

StructLists ==
    { \* two structurally identical declarations
      << StructNode(t_S, << Add(t_n, t_int, <<>>, <<>>), Add(t_n, t_int, <<>>, <<>>) >>) >>,
      \* an unclosed bracket in a condition
      << StructNode(t_S, << Add(t_n, t_int, <<>>, <<"(", "k">>) >>) >>,
      \* the same name twice, with different members
      << StructNode(t_S, << Add(t_n, t_int, <<>>, <<>>) >>), StructNode(t_S, <<>>) >>,
      <<>>,
      \* members that are the length or the condition of later members
      << StructNode(t_S, << Add(t_A, t_int, <<>>, <<>>), Add(t_B, t_int, t_A, <<>>),
                            Add(t_C, t_int, <<>>, t_A) >>),
         StructNode(t_S2, << Add(t_Z, t_int, t_A, <<>>),
                             Add(t_A, t_int, <<>>, <<>>),
                             Add(t_B, t_int, t_A, <<>>),
                             Add(t_C, t_int, <<>>, t_A),
                             Add(t_D, t_int, <<"A", " ", "-", " ", "1">>,
                                 <<"A", " ", "=", "=", " ", "B">>),
                             Add(t_G, t_int, <<"A", " ", "-", " ", "B">>, <<>>) >>) >>,
      \* a name declared three times, with another name in between
      << StructNode(t_S2, << Add(t_n, t_int, <<>>, <<>>), Add(t_k, t_int, <<>>, <<>>),
                             Add(t_n, t_E, <<>>, <<>>), Add(t_n, t_int, <<>>, <<>>) >>) >>,
      \* the argument placeholder as the condition of the first of two members
      << StructNode(t_S, << Add(t_A, t_int, <<>>, ARG), Add(t_B, t_int, <<>>, <<>>) >>) >>,
      \* scalar members of the types the default depends on, members with a
      \* length or a width, and members with a declared default
      << StructNode(t_S2,
            << Add(t_A, t_int, <<>>, <<>>), Add(t_B, t_bool, <<>>, <<>>),
               Add(t_C, <<"R", "e", "f">>, <<>>, <<>>), Add(t_D, t_float, <<>>, <<>>),
               Add(t_G, <<"o", "a", "t">>, <<>>, <<>>),
               Add(t_h, <<"S", "t", "r", "i", "n", "g", "O", "f", "f", "s", "e", "t">>, <<>>, <<>>),
               Add(t_k, <<"H", "e", "a", "d", "e", "r", "S", "t", "r", "i", "n", "g">>, <<>>, <<>>),
               Add(t_n, t_E, <<>>, <<>>), Add(t_f, t_F, <<>>, <<>>),
               Add(t_Z, t_Z, <<>>, <<>>), Add(t_arr, t_int, <<"2">>, <<>>),
               [Add(t_P, t_int, <<>>, <<>>) EXCEPT !.width = <<"2">>],
               Add(t_Q, <<"u", "n", "s", "i", "g", "n", "e", "d", " ", "i", "n", "t">>, <<>>, <<>>),
               AddDefault(t_U, t_float, <<>>, <<"1">>),
               AddDefault(t_x, t_int, <<"2">>, <<"(", "1", " ", "2", ")">>),
               AddDefault(t_y, t_string, <<>>, <<"a">>),
               AddDefault(t_z, t_E, <<>>, <<"(", "3", ")">>) >>) >>,
      \* a Struct with a member of its own type
      << StructNode(t_S, << Add(t_A, t_S, <<>>, <<>>) >>) >>,
      \* two Structs with members of each other's type, the second with an
      \* array after it; a Struct with an array before a member of its own type
      << StructNode(t_P, << Add(t_A, t_Q, <<>>, <<>>) >>),
         StructNode(t_Q, << Add(t_A, t_P, <<>>, <<>>), Add(t_B, t_int, <<"3">>, <<>>) >>),
         StructNode(t_U, << Add(t_A, t_int, t_n, <<>>), Add(t_B, t_U, <<>>, <<>>) >>) >>,
      \* a since version of five components
      << StructNode(t_S, << [Add(t_n, t_int, <<>>, <<>>) EXCEPT
                               !.since = <<"1", ".", "2", ".", "3", ".", "4", ".", "5">>] >>) >>,
      \* a version of five components as the right operand of a vercond
      << StructNode(t_S, << Add(t_A, t_int, <<>>, <<>>),
                            [Add(t_n, t_int, <<>>, <<>>) EXCEPT
                               !.vercond = <<"k", " ", "=", "=", " ", "1", ".", "2", ".",
                                             "3", ".", "4", ".", "5">>] >>) >> }

BlockLists ==
    { << BlockNode(t_Root, <<>>, << Add(t_f, t_int, <<>>, <<>>) >>),
         BlockNode(t_Root, <<>>, <<>>) >>,
      \* a Block that names itself as parent
      << BlockNode(t_Root, t_Root, <<>>) >>,
      \* a parent that the document does not define
      << BlockNode(t_Mid, t_Root, <<>>) >>,
      \* a parent defined after its child
      << BlockNode(t_Mid, t_Root, <<>>), BlockNode(t_Root, <<>>, <<>>) >>,
      <<>>,
      \* a chain whose last Block names itself as parent
      << BlockNode(t_Root, <<>>, <<>>), BlockNode(t_Mid, t_Root, <<>>),
         BlockNode(t_Leaf, t_Leaf, <<>>) >>,
      \* a closing bracket without its opening one in a length
      << BlockNode(t_Root, <<>>, << Add(t_f, t_int, <<"a", ")">>, <<>>) >>) >>,
      \* an until version of six components
      << BlockNode(t_Root, <<>>, <<>>),
         BlockNode(t_Mid, t_Root,
                   << [Add(t_f, t_int, <<>>, <<>>) EXCEPT
                         !.until = <<"1", ".", "2", ".", "3", ".", "4", ".", "5", ".", "6">>] >>) >> }

\* the documents a load is given: the two schemas that load, and the first
\* with one part replaced
Documents ==
    { BaseDocument, OtherDocument, OtherNoFlags }
    \cup { [BaseDocument EXCEPT !.version = v] : v \in RootVersions }
    \cup { [BaseDocument EXCEPT !.versions = l] : l \in VersionLists }
    \cup { [BaseDocument EXCEPT !.basics = l] : l \in BasicLists }
    \cup { [BaseDocument EXCEPT !.enums = l] : l \in EnumLists }
    \cup { [BaseDocument EXCEPT !.bitflags = l] : l \in FlagLists }
    \cup { [BaseDocument EXCEPT !.structs = l] : l \in StructLists }
    \cup { [BaseDocument EXCEPT !.niobjects = l] : l \in BlockLists }

\* no document: the value of xml before the first load
NoDocument ==
    [ version |-> <<>>, versions |-> <<>>, basics |-> <<>>, enums |-> <<>>,
      bitflags |-> <<>>, structs |-> <<>>, niobjects |-> <<>> ]

(***************************************************************************)
(* Texts and objects that the calls of version2number, Expression, eval    *)
(* and code are made on.                                                   *)
(***************************************************************************)
\* the decimal text of n >= 0
Dec(n) == Digits2Text(n, 10)

\* texts joined by dots
RECURSIVE Dotted(_)
Dotted(parts) ==
    IF Len(parts) = 0 THEN <<>>
    ELSE IF Len(parts) = 1 THEN parts[1]
    ELSE parts[1] \o <<".">> \o Dotted(Tail(parts))

\* values of the first component, kept below 128 so that every ordinal is
\* below 2^31, and of the other components
FirstComponents == {0, 1, 10, 127}
Components == {0, 1, 10, 255}

\* the part after the dot of a two-component text
ShortTails ==
    { <<"0">>, <<"1">>, <<"9">>, <<"0", "0">>, <<"0", "1">>, <<"1", "0">>,
      <<"1", "2">>, <<"1", "2", "3">>, <<"0", "0", "0">>, <<"1", "0", "0">>,
      <<"1", "2", "3", "4">> }

VersionTexts ==
    { Dotted(<<Dec(a)>>) : a \in FirstComponents }
    \cup { Dotted(<<Dec(a), Dec(b), Dec(c)>>) :
              a \in FirstComponents, b \in Components, c \in Components }
    \cup { Dotted(<<Dec(a), Dec(b), Dec(c), Dec(d)>>) :
              a \in FirstComponents, b \in Components, c \in Components,
              d \in Components }
    \cup { Dotted(<<Dec(a), b>>) : a \in FirstComponents, b \in ShortTails }
    \cup { <<>>,
           \* components above 255
           Dotted(<<Dec(0), Dec(256), Dec(0), Dec(0)>>),
           Dotted(<<Dec(0), Dec(0), Dec(256), Dec(0)>>),
           Dotted(<<Dec(1), Dec(0), Dec(0), Dec(256)>>),
           \* more than four components
           Dotted(<<Dec(1), Dec(2), Dec(3), Dec(4), Dec(5)>>),
           Dotted(<<Dec(1), Dec(2), Dec(3), Dec(4), Dec(5), Dec(6)>>),
           Dotted(<<t_f, t_k, t_h, t_n, t_f>>),
           <<".", ".", ".", ".">>,
           \* a component that is not a number
           Dotted(<<Dec(1), <<>>, Dec(2)>>), Dotted(<<Dec(1), t_f, Dec(2), Dec(3)>>) }

\* the characters of the texts that brackets are tried on
BracketChars == {"a", "(", ")", "+", " "}
MaxTextLen == 5

RECURSIVE TextsUpTo(_, _)
\* the texts over the characters of at most n characters
TextsUpTo(chars, n) ==
    IF n = 0 THEN { <<>> }
    ELSE TextsUpTo(chars, n - 1)
         \cup { Append(s, c) : s \in { u \in TextsUpTo(chars, n - 1) : Len(u) = n - 1 },
                               c \in chars }

BracketTexts ==
    TextsUpTo(BracketChars, MaxTextLen)
    \cup { <<"a", "(", "b", ")", "c">>, <<"!", "(", "a">>, <<"!", "a", ")">> }


\* x OP y for every operator, and x OP y OP z for some
BinaryTexts ==
    { t_x \o <<" ">> \o op \o <<" ">> \o t_y : op \in operators }
    \cup { t_x \o <<" ">> \o op \o <<" ">> \o t_y \o <<" ">> \o op \o <<" ">> \o t_z :
              op \in { <<"-">>, <<"&", "&">>, <<"|", "|">>, <<"/">>, <<"=", "=">> } }

\* x OP1 y OP2 z for every two operators
ChainTexts ==
    { t_x \o <<" ">> \o op1 \o <<" ">> \o t_y \o <<" ">> \o op2 \o <<" ">> \o t_z :
          op1 \in operators, op2 \in operators }

\* texts with a bracketed right operand, with '!', with an operator that
\* nothing follows, and with numbers
OtherTexts ==
    { <<"x", " ", "&", " ", "(", "y", " ", "|", " ", "z", ")">>,
      <<"x", " ", "-", " ", "(", "y", ")">>,
      <<"!", "!", "x">>,
      <<"(", "!", "x", ")", " ", "&", "&", " ", "y">>,
      <<"x", " ", "&", "&", " ", "!", "y">>,
      <<"!", "(", "x", ")">>,
      <<"x", " ", "&", "&">>,
      <<"(", "x", ")", " ", "|">>,
      <<"5">>,
      <<"0", "x", "1", "0">>,
      <<"x", " ", "+", " ", "5">>,
      <<"5", " ", "+", " ", "x">>,
      <<"(", "5", ")">> }

EvalTexts ==
    BinaryTexts \cup ChainTexts \cup OtherTexts
    \cup { <<>>, t_x, <<"!">> \o t_x, QuotedEmpty,
           <<"9", "9", " ", "&", " ", "1", "5">>,
           <<"1", " ", "=", "=", " ", "1">>,
           <<"1", " ", "!", "=", " ", "1">>,
           <<"x", " ", "&", " ", "1">>,
           <<"(", "x", " ", "|", " ", "y", ")", " ", "&", " ", "z">>,
           <<"(", "9", "9", "&", "1", "5", ")", "&", "&", "y">>,
           <<"(", "x", "=", "=", " ", "y", ")", " ", "&", "&", "(", "(", " ", "y", "!", "=",
             "z", ")", "|", "|", "x", " ", ")">>,
           <<"c", " ", "&", "&", " ", "d">>,
           <<"x", " ", "=", "=", " ">> \o QuotedEmpty,
           <<"x", " ", "=", "=", " ", "1", ".", "2", ".", "3", ".", "4">>,
           <<"x", " ", "=", "=", " ", "1", ".", "2", ".", "3", ".", "4", ".", "5">> }

\* values bound to x, y and z
ContextValues == 0..2

\* no object, and the objects that bind x, y and z
Contexts ==
    { NoData }
    \cup { Object([n \in {t_x, t_y, t_z} |->
                      IntVal(IF n = t_x THEN a ELSE IF n = t_y THEN b ELSE c)]) :
              a \in ContextValues, b \in ContextValues, c \in ContextValues }

(***************************************************************************)
(* State                                                                   *)
(***************************************************************************)
VARIABLES
    TYPES,      \* TYPES_VERSION .. TYPES_BLOCK: by category, name -> instance
    NAMES,      \* NAMES_VERSION .. NAMES_BLOCK: by category, the list of names
    xml,        \* the document of the current (or last) parse_xml call
    stage,      \* where that call stands: the loop it is in, or how it ended
    pos,        \* the index of the next node of that loop, from 1
    result,     \* what the call returned or raised
    nloads,     \* the number of parse_xml calls made so far
    start,      \* history: the registries when the current call began
    prev,       \* history: the document, the result and the final registries
                \* of the call before the current one
    expr_str,   \* the text given to version2number or to Expression
    data,       \* the object given to eval
    out         \* what the calls on expr_str have returned or raised so far

vars == <<TYPES, NAMES, xml, stage, pos, result, nloads, start, prev, expr_str, data, out>>

Categories == {"VERSION", "BASIC", "ENUM", "FLAG", "STRUCT", "BLOCK"}

TYPES_VERSION == TYPES.VERSION
TYPES_BASIC == TYPES.BASIC
TYPES_ENUM == TYPES.ENUM
TYPES_FLAG == TYPES.FLAG
TYPES_STRUCT == TYPES.STRUCT
TYPES_BLOCK == TYPES.BLOCK
NAMES_VERSION == NAMES.VERSION
NAMES_BASIC == NAMES.BASIC
NAMES_ENUM == NAMES.ENUM
NAMES_FLAG == NAMES.FLAG
NAMES_STRUCT == NAMES.STRUCT
NAMES_BLOCK == NAMES.BLOCK

\* the outcome of parse_xml; val is the truth value of what it returned
LoadReturn(b) == [kind |-> "return", val |-> b, exc |-> ""]
LoadRaise(e) == [kind |-> "raise", val |-> FALSE, exc |-> e]
NoResult == [kind |-> "none", val |-> FALSE, exc |-> ""]

\* calls not made yet
NoVersion == [kind |-> "pending", val |-> 0, exc |-> ""]
NoTree == [t |-> "pending"]
NoValue == [kind |-> "pending", val |-> IntVal(0), exc |-> ""]
NoCode == [kind |-> "pending", text |-> <<>>, exc |-> ""]
NoCalls(s) ==
    [ stage |-> s, version |-> NoVersion, tree |-> NoTree, value |-> NoValue,
      code |-> NoCode, tree2 |-> NoTree, value2 |-> NoValue ]

\* the six dictionaries and lists as the module creates them
InitRegistries ==
    /\ TYPES = [c \in Categories |-> <<>>]
    /\ NAMES = [c \in Categories |-> <<>>]
    /\ xml = NoDocument
    /\ stage = "idle"
    /\ pos = 1
    /\ result = NoResult
    /\ nloads = 0
    /\ start = [TYPES |-> [c \in Categories |-> <<>>], NAMES |-> [c \in Categories |-> <<>>]]
    /\ prev = [xml |-> NoDocument, result |-> NoResult,
               TYPES |-> [c \in Categories |-> <<>>], NAMES |-> [c \in Categories |-> <<>>]]

\* the process that loads documents calls nothing else
Init ==
    /\ InitRegistries
    /\ expr_str = <<>>
    /\ data = NoData
    /\ out = NoCalls("none")


(***************************************************************************)
(* parse_xml and validate_xml                                              *)
(***************************************************************************)
\* d[k] = v on a dict
Put(d, k, v) == [x \in (DOMAIN d) \cup {k} |-> IF x = k THEN v ELSE d[x]]

\* the stages of a call that has ended
Ended == {"idle", "rejected", "aborted", "validated"}

\* the tag whose nodes a loop registers, and the registry it fills
Category(tag) ==
    CASE tag = "version" -> "VERSION" [] tag = "basic" -> "BASIC"
      [] tag = "enum" -> "ENUM" [] tag = "bitflags" -> "FLAG"
      [] tag = "struct" -> "STRUCT" [] tag = "niobject" -> "BLOCK"

\* xml.getElementsByTagName(tag)
getElementsByTagName(doc, tag) ==
    CASE tag = "version" -> doc.versions [] tag = "basic" -> doc.basics
      [] tag = "enum" -> doc.enums [] tag = "bitflags" -> doc.bitflags
      [] tag = "struct" -> doc.structs [] tag = "niobject" -> doc.niobjects

\* the loop that follows the loop over tag
NextStage(tag) ==
    CASE tag = "version" -> "basic" [] tag = "basic" -> "enum"
      [] tag = "enum" -> "bitflags" [] tag = "bitflags" -> "struct"
      [] tag = "struct" -> "niobject" [] tag = "niobject" -> "validate"

\* the members of a new Struct or Block with the defaults that
\* Member.__init__ derives from the name registries, which do not change
\* while the instance is built
WithDefaults(made) ==
    IF made.exc # "" THEN made
    ELSE Built([made.inst EXCEPT !.members =
                   [k \in 1..Len(@) |->
                       SetDefault(@[k], NAMES.BASIC, NAMES.FLAG, NAMES.ENUM)]])

\* "instance = Version(element)" .. "instance = Block(element, ntypes)"
Construct(tag, element) ==
    CASE tag = "version" -> Version(element)
      [] tag = "basic" -> Basic(element)
      [] tag = "enum" -> Enum(element, TYPES.BASIC)
      [] tag = "bitflags" -> Flag(element, TYPES.BASIC)
      [] tag = "struct" -> WithDefaults(Struct(element))
      [] tag = "niobject" -> WithDefaults(Block(element, TYPES.BLOCK))

\* a variant of the assertion that never fails
NotRegisteredAlways(name, types) == TRUE

\* the condition of "assert instance.name not in TYPES_X"
NotRegistered(name, types) == name \notin DOMAIN types

\* an exception leaves parse_xml
Abort(exc) ==
    /\ stage' = "aborted"
    /\ result' = LoadRaise(exc)
    /\ UNCHANGED <<TYPES, NAMES, pos>>

\* parse_xml up to the version test: the document is read and the root
\* version compared with MIN_XML_VERSION
ParseXml(doc) ==
    /\ stage \in Ended
    /\ nloads < MaxLoads
    /\ nloads' = nloads + 1
    /\ xml' = doc
    /\ pos' = 1
    /\ start' = [TYPES |-> TYPES, NAMES |-> NAMES]
    /\ prev' = [xml |-> xml, result |-> result, TYPES |-> TYPES, NAMES |-> NAMES]
    /\ LET s == is_supported(doc.version) IN
       IF s.kind = "raise"
       THEN stage' = "rejected" /\ result' = LoadRaise(s.exc)
       ELSE IF ~s.val
       THEN stage' = "rejected" /\ result' = LoadReturn(FALSE)
       ELSE stage' = "version" /\ result' = NoResult
    /\ UNCHANGED <<TYPES, NAMES, expr_str, data, out>>

\* a variant of the registration that stores the instance before it asserts
StoreThenAssert(cat, made) ==
    IF made.exc # "" THEN Abort(made.exc)
    ELSE IF ~NotRegistered(made.inst.name, TYPES[cat])
    THEN /\ TYPES' = [TYPES EXCEPT ![cat] = Put(@, made.inst.name, made.inst)]
         /\ NAMES' = [NAMES EXCEPT ![cat] = Append(@, made.inst.name)]
         /\ stage' = "aborted"
         /\ result' = LoadRaise("AssertionError")
         /\ UNCHANGED pos
    ELSE /\ TYPES' = [TYPES EXCEPT ![cat] = Put(@, made.inst.name, made.inst)]
         /\ NAMES' = [NAMES EXCEPT ![cat] = Append(@, made.inst.name)]
         /\ pos' = pos + 1
         /\ UNCHANGED <<stage, result>>

\* the registration of the instance that Construct made
Store(cat, made) ==
    IF made.exc # "" THEN Abort(made.exc)
    ELSE IF ~NotRegistered(made.inst.name, TYPES[cat])
    THEN Abort("AssertionError")
    ELSE /\ TYPES' = [TYPES EXCEPT ![cat] = Put(@, made.inst.name, made.inst)]
         /\ NAMES' = [NAMES EXCEPT ![cat] = Append(@, made.inst.name)]
         /\ pos' = pos + 1
         /\ UNCHANGED <<stage, result>>

\* one iteration of "for element in xml.getElementsByTagName(tag)": the
\* instance is built, asserted to be new and registered; or the loop ends
Register(tag, elements) ==
    /\ stage = tag
    /\ IF pos > Len(elements)
       THEN /\ stage' = NextStage(tag)
            /\ pos' = 1
            /\ UNCHANGED <<TYPES, NAMES, result>>
       ELSE Store(Category(tag), Construct(tag, elements[pos]))
    /\ UNCHANGED <<xml, nloads, start, prev, expr_str, data, out>>

RegisterVersion == Register("version", getElementsByTagName(xml, "version"))
RegisterBasic == Register("basic", getElementsByTagName(xml, "basic"))
RegisterEnum == Register("enum", getElementsByTagName(xml, "enum"))
RegisterFlag == Register("bitflags", getElementsByTagName(xml, "bitflags"))
RegisterStruct == Register("struct", getElementsByTagName(xml, "struct"))
RegisterBlock == Register("niobject", getElementsByTagName(xml, "niobject"))

\* val = lambda x, y: x and y and len(x) == len(y) and all(n for n in y),
\* as a truth value
val(x, y) ==
    /\ DOMAIN x # {}
    /\ Len(y) > 0
    /\ Cardinality(DOMAIN x) = Len(y)
    /\ \A i \in 1..Len(y) : y[i] # <<>>

\* validate_xml(), as the truth value of res
validate_xml(types, names) == \A c \in Categories : val(types[c], names[c])

\* "return validate_xml()"
ValidateXml ==
    /\ stage = "validate"
    /\ stage' = "validated"
    /\ result' = LoadReturn(validate_xml(TYPES, NAMES))
    /\ UNCHANGED <<TYPES, NAMES, xml, pos, nloads, start, prev, expr_str, data, out>>

Next ==
    \/ \E doc \in Documents : ParseXml(doc)
    \/ RegisterVersion
    \/ RegisterBasic
    \/ RegisterEnum
    \/ RegisterFlag
    \/ RegisterStruct
    \/ RegisterBlock
    \/ ValidateXml

Spec == Init /\ [][Next]_vars

(***************************************************************************)
(* Calls of version2number, and of Expression, eval and code, on texts     *)
(* drawn from bounded sets, in a process whose registries are empty.       *)
(***************************************************************************)
loader == <<TYPES, NAMES, xml, stage, pos, result, nloads, start, prev>>

InitVersion ==
    /\ InitRegistries
    /\ expr_str \in VersionTexts
    /\ data = NoData
    /\ out = NoCalls("start")

\* version2number(expr_str)
CallVersion2Number ==
    /\ out.stage = "start"
    /\ out' = [out EXCEPT !.stage = "returned", !.version = version2number(expr_str)]
    /\ UNCHANGED <<loader, expr_str, data>>

NextVersion == CallVersion2Number

SpecVersion == InitVersion /\ [][NextVersion]_vars

InitExpression ==
    /\ InitRegistries
    /\ \/ expr_str \in BracketTexts /\ data = NoData
       \/ expr_str \in EvalTexts /\ data \in Contexts
    /\ out = NoCalls("start")

\* e = Expression(expr_str)
CallExpression ==
    /\ out.stage = "start"
    /\ out' = [out EXCEPT !.stage = "constructed", !.tree = Expression(expr_str)]
    /\ UNCHANGED <<loader, expr_str, data>>

\* e.eval(data)
CallEval ==
    /\ out.stage = "constructed"
    /\ out.tree.t = "expr"
    /\ out' = [out EXCEPT !.stage = "evaluated", !.value = eval(out.tree, data)]
    /\ UNCHANGED <<loader, expr_str, data>>

\* e.code('', True, None)
CallCode ==
    /\ out.stage = "evaluated"
    /\ out' = [out EXCEPT !.stage = "rendered",
                          !.code = code(out.tree, <<>>, TRUE, TYPES_BLOCK)]
    /\ UNCHANGED <<loader, expr_str, data>>

\* the prefix of the call of code that is made with one
Prefix == <<"p", ".">>

\* e.code('p.', True, None), on an expression that has not been evaluated
CallCodeWithPrefix ==
    /\ out.stage = "constructed"
    /\ out.tree.t = "expr"
    /\ out' = [out EXCEPT !.stage = "prefixed",
                          !.code = code(out.tree, Prefix, TRUE, TYPES_BLOCK)]
    /\ UNCHANGED <<loader, expr_str, data>>

\* e2 = Expression(e.code('', True, None))
CallExpressionOnCode ==
    /\ out.stage = "rendered"
    /\ out.code.kind = "return"
    /\ out' = [out EXCEPT !.stage = "reconstructed", !.tree2 = Expression(out.code.text)]
    /\ UNCHANGED <<loader, expr_str, data>>

\* e2.eval(data)
CallEvalOnCode ==
    /\ out.stage = "reconstructed"
    /\ out.tree2.t = "expr"
    /\ out' = [out EXCEPT !.stage = "reevaluated", !.value2 = eval(out.tree2, data)]
    /\ UNCHANGED <<loader, expr_str, data>>

NextExpression ==
    \/ CallExpression
    \/ CallEval
    \/ CallCode
    \/ CallCodeWithPrefix
    \/ CallExpressionOnCode
    \/ CallEvalOnCode

SpecExpression == InitExpression /\ [][NextExpression]_vars

(***************************************************************************)
(* Properties                                                              *)
(***************************************************************************)
Tags == {"version", "basic", "enum", "bitflags", "struct", "niobject"}

\* the attribute under which a node of the tag is registered
NodeName(tag, el) == IF tag = "version" THEN el.id ELSE el.name

Empty == [c \in Categories |-> <<>>]

\* the root version packs to an ordinal below that of MIN_XML_VERSION
BelowMinimum(v) ==
    /\ version2number(v).kind = "return"
    /\ version2number(v).val < version2number(MIN_XML_VERSION).val

\* C1: a load of a document whose root version packs below the minimum
\* supported version returns failure and has modified none of the six maps
\* and none of the six name lists; started on empty registries it leaves
\* all of them empty.
C1_GateLeavesRegistries ==
    (nloads > 0 /\ BelowMinimum(xml.version)) =>
        /\ stage = "rejected"
        /\ result = LoadReturn(FALSE)
        /\ TYPES = start.TYPES
        /\ NAMES = start.NAMES
        /\ (start.TYPES = Empty /\ start.NAMES = Empty) =>
               \A c \in Categories : DOMAIN TYPES[c] = {} /\ Len(NAMES[c]) = 0

\* a first load of a document of version 0.9.0.0 has been refused
C1_Witness ==
    /\ nloads = 1
    /\ xml.version = <<"0", ".", "9", ".", "0", ".", "0">>
    /\ stage = "rejected"
    /\ result = LoadReturn(FALSE)
    /\ TYPES = Empty
    /\ NAMES = Empty

\* C2: in every state, for each of the six categories, the name list holds
\* no name twice, is as long as the map is large, and holds exactly the keys
\* of the map.
C2_Lockstep ==
    \A c \in Categories :
        /\ Len(NAMES[c]) = Cardinality(DOMAIN TYPES[c])
        /\ { NAMES[c][i] : i \in 1..Len(NAMES[c]) } = DOMAIN TYPES[c]
        /\ \A i, j \in 1..Len(NAMES[c]) : NAMES[c][i] = NAMES[c][j] => i = j

\* two loads have returned success and four Blocks are registered
C2_Witness ==
    /\ nloads = 2
    /\ stage = "validated"
    /\ result = LoadReturn(TRUE)
    /\ prev.result = LoadReturn(TRUE)
    /\ Len(NAMES.BLOCK) = 4
    /\ Cardinality(DOMAIN TYPES.BLOCK) = 4

\* the step of a loop that reaches a node whose name an earlier node of the
\* same list has: it ends the load with an exception and leaves the maps
\* and the lists as they are
C3_Step ==
    \A tag \in Tags :
        ( /\ stage = tag
          /\ pos <= Len(getElementsByTagName(xml, tag))
          /\ \E j \in 1..(pos - 1) :
                NodeName(tag, getElementsByTagName(xml, tag)[j])
                    = NodeName(tag, getElementsByTagName(xml, tag)[pos]) )
        => /\ stage' = "aborted"
           /\ result'.kind = "raise"
           /\ TYPES' = TYPES
           /\ NAMES' = NAMES

\* C3: when a document holds two nodes of one category with the same name,
\* the load aborts with a failure on reaching the second: the second is
\* added neither to the map nor to the list and the entity of the first is
\* not replaced.
C3_DuplicateAborts == [][C3_Step]_vars

\* a first load has aborted on the second of two structs named S: the
\* struct of the first node, with its one member, is the one registered
C3_Witness ==
    /\ nloads = 1
    /\ stage = "aborted"
    /\ result = LoadRaise("AssertionError")
    /\ pos = 2
    /\ Len(xml.structs) = 2
    /\ xml.structs[1].name = xml.structs[2].name
    /\ NAMES.STRUCT = << t_S >>
    /\ Len(TYPES.STRUCT[t_S].members) = 1

\* C4: when a load aborts partway through population, the registries are
\* exactly as they were before the load began.
C4_AbortRestores ==
    stage = "aborted" => (TYPES = start.TYPES /\ NAMES = start.NAMES)

\* C5: two loads in sequence of the same document have the same outcome:
\* the same failure, or success with equal registry contents.
C5_SameOutcome ==
    (stage \in Ended /\ nloads >= 2 /\ xml = prev.xml) =>
        /\ result = prev.result
        /\ result.val => (TYPES = prev.TYPES /\ NAMES = prev.NAMES)

\* what validation asks of the six categories
AllPopulated ==
    \A c \in Categories :
        /\ DOMAIN TYPES[c] # {}
        /\ Len(NAMES[c]) > 0
        /\ Cardinality(DOMAIN TYPES[c]) = Len(NAMES[c])
        /\ \A i \in 1..Len(NAMES[c]) : Len(NAMES[c][i]) > 0

\* the document has no node of some category
LacksCategory(doc) == \E tag \in Tags : Len(getElementsByTagName(doc, tag)) = 0

\* C6: a load returns success if and only if population completed and every
\* category has a non-empty map and list of the same size with no empty
\* name; a document that lacks all nodes of one category fails validation.
C6_SuccessIffPopulated ==
    (stage \in Ended /\ nloads > 0) =>
        /\ result = LoadReturn(TRUE) <=> (stage = "validated" /\ AllPopulated)
        /\ LacksCategory(xml) => result # LoadReturn(TRUE)

\* each registered Block has no parent or a parent registered strictly
\* earlier
C7_ParentEarlier ==
    \A b \in DOMAIN TYPES.BLOCK :
        \/ TYPES.BLOCK[b].inherit = None
        \/ /\ TYPES.BLOCK[b].inherit \in DOMAIN TYPES.BLOCK
           /\ \E i, j \in 1..Len(NAMES.BLOCK) :
                 /\ i < j
                 /\ NAMES.BLOCK[i] = TYPES.BLOCK[b].inherit
                 /\ NAMES.BLOCK[j] = b

RECURSIVE Reaches(_, _, _)
\* to is met within fuel steps along inherit from the Block named from
Reaches(from, to, fuel) ==
    IF fuel = 0 \/ from \notin DOMAIN TYPES.BLOCK THEN FALSE
    ELSE \/ TYPES.BLOCK[from].inherit = to
         \/ Reaches(TYPES.BLOCK[from].inherit, to, fuel - 1)

\* no Block is its own ancestor
C7_NoCycle ==
    \A b \in DOMAIN TYPES.BLOCK :
        ~Reaches(b, b, Cardinality(DOMAIN TYPES.BLOCK))

\* the step that constructs a Block whose inherit attribute names the Block
\* itself or a Block not registered: it fails and registers nothing
C7_Step ==
    ( /\ stage = "niobject"
      /\ pos <= Len(xml.niobjects)
      /\ Len(xml.niobjects[pos].inherit) > 0
      /\ \/ xml.niobjects[pos].inherit = xml.niobjects[pos].name
         \/ xml.niobjects[pos].inherit \notin DOMAIN TYPES.BLOCK )
    => /\ stage' = "aborted"
       /\ result'.kind = "raise"
       /\ TYPES' = TYPES
       /\ NAMES' = NAMES

\* C7: in every reachable state the parent of each registered Block is
\* absent or a Block registered strictly earlier; constructing a Block
\* whose inherit names itself or a Block not yet registered fails and
\* registers nothing; the inherit relation has no cycle.
C7_ParentsRegisteredFirst ==
    [](C7_ParentEarlier /\ C7_NoCycle) /\ [][C7_Step]_vars

\* Root and Mid <- Root are registered and the load has aborted on a third
\* Block that names itself as parent
C7_Witness ==
    /\ stage = "aborted"
    /\ result = LoadRaise("KeyError")
    /\ pos = 3
    /\ Len(xml.niobjects) = 3
    /\ xml.niobjects[3].inherit = xml.niobjects[3].name
    /\ NAMES.BLOCK = << t_Root, t_Mid >>
    /\ TYPES.BLOCK[t_Mid].inherit = t_Root
    /\ TYPES.BLOCK[t_Root].inherit = None

\* C8: for every registered Block b, ancestors() terminates and returns the
\* list that starts with b, where each next element is the parent of the
\* one before, whose last element has no parent and where no Block occurs
\* twice; for the chain Root <- Mid <- Leaf it is [Leaf, Mid, Root].
C8_Ancestors ==
    /\ \A b \in DOMAIN TYPES.BLOCK :
          /\ ancestors(TYPES.BLOCK[b], TYPES.BLOCK).kind = "return"
          /\ LET a == ancestors(TYPES.BLOCK[b], TYPES.BLOCK).val IN
             /\ Len(a) >= 1
             /\ a[1] = b
             /\ \A k \in 1..(Len(a) - 1) : a[k + 1] = TYPES.BLOCK[a[k]].inherit
             /\ TYPES.BLOCK[a[Len(a)]].inherit = None
             /\ \A i, j \in 1..Len(a) : a[i] = a[j] => i = j
    /\ ( /\ {t_Root, t_Mid, t_Leaf} \subseteq DOMAIN TYPES.BLOCK
         /\ TYPES.BLOCK[t_Leaf].inherit = t_Mid
         /\ TYPES.BLOCK[t_Mid].inherit = t_Root
         /\ TYPES.BLOCK[t_Root].inherit = None )
       => ancestors(TYPES.BLOCK[t_Leaf], TYPES.BLOCK).val = << t_Leaf, t_Mid, t_Root >>

\* Leaf is registered and its ancestors are Leaf, Mid, Root
C8_Witness ==
    /\ t_Leaf \in DOMAIN TYPES.BLOCK
    /\ TYPES.BLOCK[t_Leaf].inherit = t_Mid
    /\ ancestors(TYPES.BLOCK[t_Leaf], TYPES.BLOCK)
          = [kind |-> "return", val |-> << t_Leaf, t_Mid, t_Root >>]

\* the names that members of the documents have
MemberNames == {t_f, t_k, t_h, t_n, t_arr}

\* the Block registered as b declares a member of the name
Declares(b, name) ==
    \E i \in 1..Len(TYPES.BLOCK[b].members) : TYPES.BLOCK[b].members[i].name = name

\* the first member of the name that the Block registered as b declares
FirstDeclared(b, name) ==
    TYPES.BLOCK[b].members[
        CHOOSE i \in 1..Len(TYPES.BLOCK[b].members) :
            /\ TYPES.BLOCK[b].members[i].name = name
            /\ \A j \in 1..(i - 1) : TYPES.BLOCK[b].members[j].name # name ]

\* the nearest strict ancestor in the list a that declares the name, given
\* as its index in a; 0 when there is none
NearestDeclaring(a, name) ==
    IF \E k \in 2..Len(a) : Declares(a[k], name)
    THEN CHOOSE k \in 2..Len(a) :
            /\ Declares(a[k], name)
            /\ \A l \in 2..(k - 1) : ~Declares(a[l], name)
    ELSE 0

\* what find_member is to return for the Block registered as b
Expected(b, name, inherit, a) ==
    IF Declares(b, name) THEN FirstDeclared(b, name)
    ELSE IF inherit /\ NearestDeclaring(a, name) > 0
    THEN FirstDeclared(a[NearestDeclaring(a, name)], name)
    ELSE NoMember

\* C9: Block.find_member(name, inherit) returns the first own member of
\* that name if there is one; otherwise, with inherit true, the member of
\* that name of the nearest ancestor that declares one; with inherit false
\* never a member of an ancestor; nothing when no such member exists.
C9_FindMember ==
    \A b \in DOMAIN TYPES.BLOCK : \A name \in MemberNames : \A inherit \in BOOLEAN :
        /\ Block_find_member(TYPES.BLOCK[b], name, inherit, TYPES.BLOCK)
              = Expected(b, name, inherit, ancestors(TYPES.BLOCK[b], TYPES.BLOCK).val)
        /\ ~inherit =>
              \/ Block_find_member(TYPES.BLOCK[b], name, inherit, TYPES.BLOCK) = NoMember
              \/ Block_find_member(TYPES.BLOCK[b], name, inherit, TYPES.BLOCK).obj[1]
                    = << "niobject", b >>

\* from Leaf: f is found on Root only with inherit, k on Mid (the nearest
\* ancestor, though Root declares k too), h is Leaf's own first h
C9_Witness ==
    /\ t_Leaf \in DOMAIN TYPES.BLOCK
    /\ Block_find_member(TYPES.BLOCK[t_Leaf], t_f, TRUE, TYPES.BLOCK).obj
          = << << "niobject", t_Root >>, 1 >>
    /\ Block_find_member(TYPES.BLOCK[t_Leaf], t_f, FALSE, TYPES.BLOCK) = NoMember
    /\ Block_find_member(TYPES.BLOCK[t_Leaf], t_k, TRUE, TYPES.BLOCK).obj
          = << << "niobject", t_Mid >>, 1 >>
    /\ Block_find_member(TYPES.BLOCK[t_Leaf], t_h, TRUE, TYPES.BLOCK).obj
          = << << "niobject", t_Leaf >>, 1 >>
    /\ Block_find_member(TYPES.BLOCK[t_Leaf], t_n, TRUE, TYPES.BLOCK) = NoMember

\* the attributes of the declaration that a Member was made from
Declaration(m) ==
    [ name |-> m.name, suffix |-> m.suffix, type |-> m.type,
      length |-> m.length._code, width |-> m.width._code, cond |-> m.cond._code,
      vercond |-> m.vercond._code, since |-> m.orig_since, until |-> m.orig_until ]

\* C10: a Struct keeps one member for two structurally identical
\* declarations: no two of its members come from declarations with the same
\* attributes.
C10_IdenticalDeclarationKeptOnce ==
    \A s \in DOMAIN TYPES.STRUCT :
        \A i, j \in 1..Len(TYPES.STRUCT[s].members) :
            Declaration(TYPES.STRUCT[s].members[i])
                = Declaration(TYPES.STRUCT[s].members[j]) => i = j

\* the registered Structs and Blocks
Composites ==
    { TYPES.STRUCT[s] : s \in DOMAIN TYPES.STRUCT }
        \cup { TYPES.BLOCK[b] : b \in DOMAIN TYPES.BLOCK }

\* the expression has the name as left operand
LeftOperandIs(e, name) == e._left = Terminal(name)

\* the right operand of the expression is absent or purely numeric
RightAbsentOrNumeric(e) ==
    \/ e._right = Terminal(<<>>)
    \/ e._right.t = "str" /\ IsDigits(e._right.s)

RECURSIVE LaterLengthUsers(_, _, _)
\* the names of members[j..] whose length is the name, alone or with a number
LaterLengthUsers(members, j, name) ==
    IF j > Len(members) THEN <<>>
    ELSE (IF LeftOperandIs(members[j].length, name)
              /\ RightAbsentOrNumeric(members[j].length)
          THEN << members[j].name >> ELSE <<>>)
         \o LaterLengthUsers(members, j + 1, name)

RECURSIVE LaterCondUsers(_, _, _)
\* the names of members[j..] whose condition has the name as left operand
LaterCondUsers(members, j, name) ==
    IF j > Len(members) THEN <<>>
    ELSE (IF LeftOperandIs(members[j].cond, name)
          THEN << members[j].name >> ELSE <<>>)
         \o LaterCondUsers(members, j + 1, name)

\* C11: for every member M of a composite, M.length_ref is the list, in
\* declaration order, of the names of the siblings after M whose length has
\* M's name as left operand and a right operand absent or purely numeric,
\* and M.cond_ref the list of the names of the siblings after M whose
\* condition has M's name as left operand; for [A, B(length A), C(cond A)]
\* A.length_ref = [B] and A.cond_ref = [C].
C11_RefsOfLaterSiblings ==
    /\ \A c \in Composites : \A i \in 1..Len(c.members) :
          /\ c.members[i].length_ref
                = LaterLengthUsers(c.members, i + 1, c.members[i].name)
          /\ c.members[i].cond_ref
                = LaterCondUsers(c.members, i + 1, c.members[i].name)
    /\ \A c \in Composites :
          ( /\ Len(c.members) = 3
            /\ c.members[1].name = t_A /\ c.members[1].length._code = <<>>
            /\ c.members[2].name = t_B /\ c.members[2].length._code = t_A
            /\ c.members[3].name = t_C /\ c.members[3].cond._code = t_A )
          => /\ c.members[1].length_ref = << t_B >>
             /\ c.members[1].cond_ref = << t_C >>

\* both Structs of the document are registered: A of [A, B, C] has the lists
\* [B] and [C]; in the longer Struct A, declared after a Z of length A, has
\* [B, D] and [C, D], G of length "A - B" being left out
C11_Witness ==
    /\ {t_S, t_S2} \subseteq DOMAIN TYPES.STRUCT
    /\ Len(TYPES.STRUCT[t_S].members) = 3
    /\ TYPES.STRUCT[t_S].members[1].length_ref = << t_B >>
    /\ TYPES.STRUCT[t_S].members[1].cond_ref = << t_C >>
    /\ Len(TYPES.STRUCT[t_S2].members) = 6
    /\ TYPES.STRUCT[t_S2].members[1].length._code = t_A
    /\ TYPES.STRUCT[t_S2].members[2].length_ref = << t_B, t_D >>
    /\ TYPES.STRUCT[t_S2].members[2].cond_ref = << t_C, t_D >>

\* the calls made so far on expr_str include Expression / eval / the second eval
Constructed == out.stage \in {"constructed", "evaluated", "rendered", "reconstructed", "reevaluated"}
Evaluated == out.stage \in {"evaluated", "rendered", "reconstructed", "reevaluated"}
Reevaluated == out.stage = "reevaluated"

\* x OP y
Binary(l, op, r) == l \o <<" ">> \o op \o <<" ">> \o r

t_99 == <<"9", "9">>
t_15 == <<"1", "5">>
t_1 == <<"1">>

\* both operands of the tree are terminals spelled as non-negative integers
LiteralOperands(e) ==
    /\ e.t = "expr"
    /\ isdigit(e._left)
    /\ e._op # <<>>
    /\ isdigit(e._right)

\* C12: an expression whose operands are non-negative integer literals
\* evaluates without a context, each literal to its own value and with no
\* field lookup: '99 & 15' evaluates to 3 and '1 == 1' to 1, whatever data
\* object is given and also when none is given.
C12_LiteralsNeedNoContext ==
    /\ (Evaluated /\ LiteralOperands(out.tree)) => out.value.kind = "return"
    /\ (Evaluated /\ expr_str = Binary(t_99, <<"&">>, t_15))
          => out.value = EvReturn(IntVal(3))
    /\ (Evaluated /\ expr_str = Binary(t_1, <<"=", "=">>, t_1))
          => out.value = EvReturn(IntVal(1))

\* the operators whose result is a truth value
BooleanOps ==
    { <<"=", "=">>, <<"!", "=">>, <<">", "=">>, <<"<", "=">>, <<"&", "&">>, <<"|", "|">> }

\* whether the comparison or the boolean combination holds of two integers
Holds(op, l, r) ==
    CASE op = <<"=", "=">> -> l = r
      [] op = <<"!", "=">> -> l # r
      [] op = <<">", "=">> -> l >= r
      [] op = <<"<", "=">> -> l <= r
      [] op = <<"&", "&">> -> l # 0 /\ r # 0
      [] op = <<"|", "|">> -> l # 0 \/ r # 0

\* C13: for every pair of integer values of x and y, 'x OP y' with OP one of
\* ==, !=, >=, <=, && and || evaluates to exactly 1 when the comparison (or
\* the boolean combination of the operands' truthiness) holds and to exactly
\* 0 otherwise.
C13_ZeroOrOne ==
    \A op \in BooleanOps :
        (Evaluated /\ ~data.none /\ expr_str = Binary(t_x, op, t_y))
            => out.value = EvReturn(IntVal(IF Holds(op, data.bound[t_x].n, data.bound[t_y].n)
                                           THEN 1 ELSE 0))

\* C15: Expression('') is the empty terminal (no operator, empty left side),
\* and evaluating it against any context, or none, returns the empty value
\* and does not fail.
C15_EmptyText ==
    /\ (Constructed /\ expr_str = <<>>)
          => /\ out.tree.t = "expr"
             /\ out.tree._op = <<>>
             /\ out.tree._left = Terminal(<<>>)
    /\ (Evaluated /\ expr_str = <<>>) => out.value = EvReturn(StrVal)

\* C16: when Expression(s) evaluates to a number against a context that binds
\* the names of s, the text that code() renders from it parses again, and
\* evaluating that second tree against the same context gives the same number.
C16_RoundTrip ==
    (~data.none /\ Evaluated /\ out.value.kind = "return")
        => /\ out.stage \in {"rendered", "reconstructed", "reevaluated"}
               => out.code.kind = "return"
           /\ out.stage \in {"reconstructed", "reevaluated"} => out.tree2.t = "expr"
           /\ Reevaluated => out.value2 = out.value

RECURSIVE Depth(_, _)
\* the number of '(' less the number of ')' among the first i characters
Depth(s, i) ==
    IF i = 0 THEN 0
    ELSE Depth(s, i - 1) + (IF s[i] = "(" THEN 1 ELSE IF s[i] = ")" THEN -1 ELSE 0)

\* a ')' without a '(' before it to match, or a '(' that is never closed
Unbalanced(s) ==
    \/ \E i \in 1..Len(s) : Depth(s, i) < 0
    \/ Depth(s, Len(s)) # 0

\* an operator is spelled from the character at index j (from 1) on
OperatorAt(s, j) ==
    \E op \in operators :
        /\ j + Len(op) - 1 <= Len(s)
        /\ SubSeq(s, j, j + Len(op) - 1) = op

\* the first token after some ')' is neither an operator nor another ')'
ClosingThenOperand(s) ==
    \E i \in 1..Len(s) : \E j \in (i + 1)..Len(s) :
        /\ s[i] = ")"
        /\ \A k \in (i + 1)..(j - 1) : s[k] = " "
        /\ s[j] \notin {" ", ")"}
        /\ ~OperatorAt(s, j)

\* C14: Expression(expr_str) raises the syntax error (ValueError) and yields
\* no tree when the brackets of expr_str do not balance, or when a closing
\* bracket is followed directly by a token that is not an operator, as in
\* 'a(b)c'.
C14_BracketErrors ==
    (Constructed /\ (Unbalanced(expr_str) \/ ClosingThenOperand(expr_str)))
        => out.tree = ExprRaise("ValueError")

\* Expression('a(b)c') has been called and raised the syntax error
C14_Witness ==
    /\ out.stage = "constructed"
    /\ expr_str = <<"a", "(", "b", ")", "c">>
    /\ ~Unbalanced(expr_str)
    /\ ClosingThenOperand(expr_str)
    /\ out.tree = ExprRaise("ValueError")

\* version2number(expr_str) has been called
Returned == out.stage = "returned"

RECURSIVE Packed(_, _)
\* the sum of parts[i] shifted left by 8 * (3 - (i - 1)) bits, from index i on
Packed(parts, i) ==
    IF i > Len(parts) THEN 0
    ELSE parts[i] * 2 ^ (8 * (4 - i)) + Packed(parts, i + 1)

\* one, three or four components, each in 0..255
ComponentLists ==
    { <<a>> : a \in FirstComponents }
    \cup { <<a, b, c>> : a \in FirstComponents, b \in Components, c \in Components }
    \cup { <<a, b, c, d>> : a \in FirstComponents, b \in Components, c \in Components,
                            d \in Components }

\* the dotted text of a list of numbers
DottedDec(parts) == Dotted([i \in 1..Len(parts) |-> Dec(parts[i])])

\* C17: for a text of 1, 3 or 4 dot-separated numeric components, each in
\* 0..255, version2number returns the sum of component i (from 0) shifted
\* left by 8 * (3 - i) bits, absent low components counting as zero;
\* '10.0.1.0' gives 0x0A000100 = 167772416.
C17_BytePerComponent ==
    /\ \A parts \in ComponentLists :
          (Returned /\ expr_str = DottedDec(parts))
              => out.version = Return(Packed(parts, 1))
    /\ (Returned /\ expr_str = DottedDec(<<10, 0, 1, 0>>))
          => out.version = Return(167772416)

\* version2number('10.0.1.0') has returned 0x0A000100, and so has the
\* three-component '10.0.1'
C17_Witness ==
    /\ Returned
    /\ expr_str = DottedDec(<<10, 0, 1, 0>>)
    /\ out.version = Return(10 * 2 ^ 24 + 2 ^ 8)
    /\ version2number(DottedDec(<<10, 0, 1>>)) = out.version

\* the digit of b at position i (from 1), 0 when b is shorter
DigitAt(b, i) == IF i <= Len(b) THEN DigitVal(b[i]) ELSE 0

\* the digits of b from the third on, read as one number; 0 when there are none
RestOf(b) == IF Len(b) >= 3 THEN DecVal(SubSeq(b, 3, Len(b))) ELSE 0

\* a in the top byte and the digits of b by position below it
ShortPacked(a, b) ==
    a * 2 ^ 24 + DigitAt(b, 1) * 2 ^ 16 + DigitAt(b, 2) * 2 ^ 8 + RestOf(b)

\* the text 'a.b' and the text 'a.b.0.0'
ShortText(a, b) == Dotted(<<Dec(a), b>>)
PaddedText(a, b) == Dotted(<<Dec(a), b, Dec(0), Dec(0)>>)

\* the ordinal of 'a.b.0.0' is below 2^31, the largest number compared here
PaddedFits(a, b) == a * 256 + DecVal(b) < 2 ^ 15

\* b has two or more digits, not all of them zero
SeveralDigitsNotAllZero(b) == Len(b) >= 2 /\ \E i \in 1..Len(b) : b[i] # "0"

\* C18 as stated: for a two-component text 'a.b' version2number puts a in the
\* top byte and the digits of b by digit position into the lower three bytes,
\* and the result is distinct from version2number('a.b.0.0'), for '10.1' too.
C18_ShortFormDistinct ==
    \A a \in FirstComponents : \A b \in ShortTails :
        (Returned /\ expr_str = ShortText(a, b))
            => /\ out.version = Return(ShortPacked(a, b))
               /\ PaddedFits(a, b) => out.version # version2number(PaddedText(a, b))

\* C18 amended: for a two-component text 'a.b' version2number puts a in the
\* top byte and the digits of b by digit position into the lower three bytes,
\* and the result is distinct from version2number('a.b.0.0') exactly when b
\* has two or more digits that are not all zero; version2number('10.1')
\* equals version2number('10.1.0.0').
C18_ShortFormDistinctFromTwoDigits ==
    \A a \in FirstComponents : \A b \in ShortTails :
        (Returned /\ expr_str = ShortText(a, b))
            => /\ out.version = Return(ShortPacked(a, b))
               /\ PaddedFits(a, b)
                     => ((out.version # version2number(PaddedText(a, b)))
                            <=> SeveralDigitsNotAllZero(b))

\* version2number('10.1') has returned 0x0A010000, which is also
\* version2number('10.1.0.0'), while '10.12' and '10.12.0.0' differ
C18_Witness ==
    /\ Returned
    /\ expr_str = ShortText(10, <<"1">>)
    /\ out.version = Return(10 * 2 ^ 24 + 2 ^ 16)
    /\ version2number(PaddedText(10, <<"1">>)) = out.version
    /\ version2number(ShortText(10, <<"1", "2">>))
          # version2number(PaddedText(10, <<"1", "2">>))

\* the text has more than four dot-separated components
TooManyComponents(s) == Cardinality({i \in 1..Len(s) : s[i] = "."}) >= 4

\* the text from index i to index j is a token of digits and single dots
\* that starts and ends with a digit
DottedNumber(s, i, j) ==
    /\ \A k \in i..j : s[k] \in Digits \cup {"."}
    /\ s[i] \in Digits /\ s[j] \in Digits
    /\ \A k \in i..(j - 1) : ~(s[k] = "." /\ s[k + 1] = ".")
    /\ i = 1 \/ s[i - 1] = " "
    /\ j = Len(s) \/ s[j + 1] = " "

\* an operand of the expression text is a dotted number of more than four
\* components
LongVersionTerminal(s) ==
    \E i \in 1..Len(s) : \E j \in i..Len(s) :
        DottedNumber(s, i, j) /\ TooManyComponents(SubSeq(s, i, j))

\* the <add> has a since or an until of more than four components, or such
\* a dotted number in one of its expressions
Overlong(add) ==
    \/ TooManyComponents(add.since)
    \/ TooManyComponents(add.until)
    \/ \E e \in {add.length, add.width, add.cond, add.vercond} : LongVersionTerminal(e)

\* the <add> elements of the struct and niobject nodes of the document
AddsOf(doc) ==
    UNION { { n.adds[k] : k \in 1..Len(n.adds) } :
            n \in { doc.structs[i] : i \in 1..Len(doc.structs) }
                  \cup { doc.niobjects[i] : i \in 1..Len(doc.niobjects) } }

\* the step of the struct or niobject loop at a node with such an <add>: the
\* calls fail, and the load ends with an exception without registering the node
C19_Step ==
    /\ \A add \in AddsOf(xml) :
          /\ TooManyComponents(add.since)
                => version2number(add.since) = Raise("AssertionError")
          /\ TooManyComponents(add.until)
                => version2number(add.until) = Raise("AssertionError")
          /\ \A e \in {add.length, add.width, add.cond, add.vercond} :
                LongVersionTerminal(e) => Expr(e) = ExprRaise("AssertionError")
    /\ \A tag \in {"struct", "niobject"} :
          ( /\ stage = tag
            /\ pos <= Len(getElementsByTagName(xml, tag))
            /\ \E k \in 1..Len(getElementsByTagName(xml, tag)[pos].adds) :
                  Overlong(getElementsByTagName(xml, tag)[pos].adds[k]) )
          => /\ stage' = "aborted"
             /\ result'.kind = "raise"
             /\ result'.exc # "ValueError"
             /\ TYPES' = TYPES
             /\ NAMES' = NAMES

\* C19: version2number fails on a text of more than four dot-separated
\* components, and when a member's since or until is such a text, or an
\* operand of one of its expressions is such a dotted number, the failure is
\* not swallowed: it leaves Member construction and aborts the load.
C19_TooManyComponentsAborts == [][C19_Step]_vars

\* a first load has aborted with the assertion failure on the struct whose
\* second member has the vercond 'k == 1.2.3.4.5'; the struct is not registered
C19_Witness ==
    /\ nloads = 1
    /\ stage = "aborted"
    /\ result = LoadRaise("AssertionError")
    /\ Len(xml.structs) = 1
    /\ Len(xml.structs[1].adds) = 2
    /\ LongVersionTerminal(xml.structs[1].adds[2].vercond)
    /\ ~TooManyComponents(xml.structs[1].adds[2].since)
    /\ TYPES.STRUCT = <<>>

\* byte i (from 1, the most significant of four) of an ordinal
ByteOf(v, i) == (v \div 2 ^ (8 * (4 - i))) % 256

\* the four components c are below those of '1.0.0.0' as tuples
BelowOneZeroZeroZero(c) == DecVal(c[1]) < 1

\* the claim of C20 for the ordinal v returned for the components c
OwnBytes(v, c) ==
    /\ v >= 0
    /\ v \div 2 ^ 16 < 2 ^ 16
    /\ Len(c) = 4
          => /\ \A i \in 1..4 : ByteOf(v, i) = DecVal(c[i])
             /\ BelowOneZeroZeroZero(c)
                   <=> v < version2number(DottedDec(<<1, 0, 0, 0>>)).val

\* C20: for every text that version2number accepts the result lies in
\* 0..2^32-1 and each component occupies only its own byte, so that the
\* ordinals of four-component texts are ordered as their component tuples.
C20_ComponentsInOwnByte ==
    (Returned /\ out.version.kind = "return")
        => OwnBytes(out.version.val, Split(expr_str, "."))

\* an operator starts at index i, outside every bracket
TopLevelOperatorAt(s, i) == Depth(s, i - 1) = 0 /\ OperatorAt(s, i)

HasTopLevelOperator(s) == \E i \in 1..Len(s) : TopLevelOperatorAt(s, i)

\* the index of the first operator outside brackets
FirstTopLevelOperator(s) ==
    CHOOSE i \in 1..Len(s) :
        TopLevelOperatorAt(s, i) /\ \A j \in 1..(i - 1) : ~TopLevelOperatorAt(s, j)

\* the operator at index i, in its two-character spelling when one starts there
SpellingAt(s, i) ==
    IF i < Len(s) /\ SubSeq(s, i, i + 1) \in operators
    THEN SubSeq(s, i, i + 1) ELSE <<s[i]>>

\* the text is one bracketed group: its first '(' is closed by its last ')'
BracketedGroup(l) ==
    /\ Len(l) >= 2
    /\ l[1] = "(" /\ l[Len(l)] = ")"
    /\ \A k \in 1..(Len(l) - 1) : Depth(l, k) > 0

\* the trimmed left side, with one enclosing bracket pair removed
LeftSide(l) == IF BracketedGroup(l) THEN Strip(SubSeq(l, 2, Len(l) - 1)) ELSE l

\* (L, op, R) around the first operator outside brackets, at index i
PartitionAround(s, i) ==
    PartOk(LeftSide(Strip(SubSeq(s, 1, i - 1))), SpellingAt(s, i),
           Strip(SubSeq(s, i + Len(SpellingAt(s, i)), Len(s))))

\* C21: for every text with an operator outside brackets (balanced, and not
\* starting with '!'), _partition returns (L, op, R) with op the first
\* operator outside brackets in its two-character spelling when one starts
\* there, L the trimmed text before it less one enclosing bracket pair, and
\* R the trimmed text after it; 'x & (y | z)' gives ('x', '&', '(y | z)').
C21_FirstTopLevelOperator ==
    /\ ( /\ Constructed
         /\ HasTopLevelOperator(expr_str)
         /\ ~Unbalanced(expr_str)
         /\ ~StartsWithNot(Strip(expr_str)) )
          => _partition(expr_str)
                = PartitionAround(expr_str, FirstTopLevelOperator(expr_str))
    /\ (Constructed /\ expr_str = <<"x", " ", "&", " ", "(", "y", " ", "|", " ", "z", ")">>)
          => _partition(expr_str) = PartOk(t_x, <<"&">>, <<"(", "y", " ", "|", " ", "z", ")">>)

RECURSIVE NoBangTerminal(_)
\* no terminal of the tree has a '!' in its text
NoBangTerminal(e) ==
    IF e.t = "str" THEN \A i \in 1..Len(e.s) : e.s[i] # "!"
    ELSE NoBangTerminal(e._left) /\ NoBangTerminal(e._right)

\* the node is a unary '!' over the terminal of the name given
NotOf(e, name) == e.t = "expr" /\ e._op = <<"!">> /\ e._left = Terminal(name)

\* C22: wherever the trimmed text of an expression or sub-expression starts
\* with '!' the result is a '!' node over the remainder, which evaluates to
\* the negated truthiness of the remainder: '(!x) && y' has a '!' node as
\* left operand, 'x && !y' one as right operand, no terminal keeps a '!',
\* '!x' is true exactly when x is 0 and '!!x' exactly when x is not 0.
C22_Negation ==
    /\ (Constructed /\ out.tree.t = "expr") => NoBangTerminal(out.tree)
    /\ (Constructed /\ expr_str = <<"(", "!", "x", ")", " ", "&", "&", " ", "y">>)
          => out.tree.t = "expr" /\ NotOf(out.tree._left, t_x)
    /\ (Constructed /\ expr_str = <<"x", " ", "&", "&", " ", "!", "y">>)
          => out.tree.t = "expr" /\ NotOf(out.tree._right, t_y)
    /\ (Evaluated /\ ~data.none /\ expr_str = <<"!">> \o t_x)
          => /\ out.value.kind = "return"
             /\ Truth(out.value.val) <=> data.bound[t_x].n = 0
    /\ (Evaluated /\ ~data.none /\ expr_str = <<"!", "!">> \o t_x)
          => /\ out.value.kind = "return"
             /\ Truth(out.value.val) <=> data.bound[t_x].n # 0

RECURSIVE NoEmptyRight(_)
\* no node of the tree has a binary operator and an empty right operand
NoEmptyRight(e) ==
    IF e.t = "str" THEN TRUE
    ELSE /\ (e._op \in operators) => e._right # Terminal(<<>>)
         /\ NoEmptyRight(e._left)
         /\ NoEmptyRight(e._right)

\* C23: a text in which a binary operator is matched and nothing follows it,
\* such as 'x &&' or '(x) |', fails with the syntax error when it is parsed:
\* no tree carries a binary operator with an empty right operand.
C23_DanglingOperator ==
    /\ (Constructed /\ expr_str \in {<<"x", " ", "&", "&">>, <<"(", "x", ")", " ", "|">>})
          => out.tree = ExprRaise("ValueError")
    /\ (Constructed /\ out.tree.t = "expr") => NoEmptyRight(out.tree)

\* x OP1 y OP2 z
Chain(op1, op2) == Binary(t_x, op1, Binary(t_y, op2, t_z))

\* the node (op, left, right) built from the text code
Node(code_, op, left, right) ==
    [t |-> "expr", _code |-> code_, _op |-> op, _left |-> left, _right |-> right]

\* C29: a chain without brackets is grouped to the right, whatever the
\* operators: 'x OP1 y OP2 z' parses to (OP1, x, (OP2, y, z)), so that
\* 'x - y - z' evaluates to x - (y - z) and 'x * y + z' to x * (y + z).
C29_RightGrouping ==
    /\ \A op1 \in operators : \A op2 \in operators :
          (Constructed /\ expr_str = Chain(op1, op2))
              => out.tree = Node(expr_str, op1, Terminal(t_x),
                                 Node(Binary(t_y, op2, t_z), op2,
                                      Terminal(t_y), Terminal(t_z)))
    /\ (Evaluated /\ ~data.none /\ expr_str = Chain(<<"-">>, <<"-">>))
          => out.value = EvReturn(IntVal(data.bound[t_x].n
                                 - (data.bound[t_y].n - data.bound[t_z].n)))
    /\ (Evaluated /\ ~data.none /\ expr_str = Chain(<<"*">>, <<"+">>))
          => out.value = EvReturn(IntVal(data.bound[t_x].n
                                 * (data.bound[t_y].n + data.bound[t_z].n)))

\* 'x * y + z' has been evaluated with x = 2, y = 1, z = 2 and gave 6, where
\* grouping to the left would give 4
C29_Witness ==
    /\ out.stage = "evaluated"
    /\ expr_str = Chain(<<"*">>, <<"+">>)
    /\ ~data.none
    /\ data.bound[t_x].n = 2 /\ data.bound[t_y].n = 1 /\ data.bound[t_z].n = 2
    /\ out.tree._right.t = "expr"
    /\ out.value = EvReturn(IntVal(6))

\* C30: every operator on which the parser splits a text can be evaluated:
\* for a tree built by parsing and a context that binds its names to
\* integers, eval never ends in the 'operator not implemented' failure, also
\* not for '>' and '<'.
C30_OperatorsImplemented ==
    (Evaluated /\ ~data.none) => out.value.exc # "NotImplementedError"

\* the text of a terminal is a decimal or a hex integer
Numeric(s) == IsDigits(s) \/ StartsWith0x(s)

\* a terminal as C26 has it rendered
ClaimedTerminal(x, prefix) ==
    IF Numeric(x.s) THEN x.s
    ELSE IF x.s \in DOMAIN TYPES_BLOCK THEN IsDerivedType(x.s)
    ELSE prefix \o x.s

\* the tree is one non-empty terminal, or a binary node over two of them
OnlyTerminal(e) == e._op = <<>> /\ e._left.t = "str" /\ e._left.s # <<>>
OverTerminals(e) ==
    /\ e._op \in operators
    /\ e._left.t = "str" /\ e._left.s # <<>>
    /\ e._right.t = "str" /\ e._right.s # <<>>

\* C26: in the text that code(prefix, brackets, name_filter) produces a
\* decimal or hex integer terminal appears unchanged, without the prefix,
\* whether it is an operand of a node or the whole expression; a terminal
\* that is a registered Block name appears as the type-check form; every
\* other name appears as the prefix followed by the name.
C26_TerminalsInCode ==
    /\ (out.stage = "prefixed" /\ OnlyTerminal(out.tree))
          => out.code = CodeReturn(ClaimedTerminal(out.tree._left, Prefix))
    /\ (out.stage = "prefixed" /\ OverTerminals(out.tree))
          => out.code = CodeReturn(<<"(">> \o ClaimedTerminal(out.tree._left, Prefix)
                                   \o <<" ">> \o out.tree._op \o <<" ">>
                                   \o ClaimedTerminal(out.tree._right, Prefix)
                                   \o <<")">>)

\* the indices after i of the members that have the name of members[i]
LaterNamesakes(members, i) ==
    { j \in (i + 1)..Len(members) : members[j].name = members[i].name }

\* the least of a non-empty set of numbers
Least(S) == CHOOSE j \in S : \A k \in S : j <= k

\* C24: in every registered Struct and Block, the next_dup of a member is the
\* earliest member declared after it in the same composite that has its
\* name, and nothing when there is none: it is never the member itself, an
\* earlier member or a member of another composite.
C24_NextDup ==
    \A c \in Composites : \A i \in 1..Len(c.members) :
        /\ c.members[i].next_dup # c.members[i].obj
        /\ \A j \in 1..(i - 1) : c.members[i].next_dup # c.members[j].obj
        /\ IF LaterNamesakes(c.members, i) = {}
           THEN c.members[i].next_dup = None
           ELSE c.members[i].next_dup
                    = c.members[Least(LaterNamesakes(c.members, i))].obj

\* the Struct with the members n, k, n, n is registered: the first n links
\* to the third member, the third to the fourth, and k and the fourth to none
C24_Witness ==
    /\ t_S2 \in DOMAIN TYPES.STRUCT
    /\ Len(TYPES.STRUCT[t_S2].members) = 4
    /\ TYPES.STRUCT[t_S2].members[1].name = TYPES.STRUCT[t_S2].members[4].name
    /\ TYPES.STRUCT[t_S2].members[1].next_dup = TYPES.STRUCT[t_S2].members[3].obj
    /\ TYPES.STRUCT[t_S2].members[3].next_dup = TYPES.STRUCT[t_S2].members[4].obj
    /\ TYPES.STRUCT[t_S2].members[2].next_dup = None
    /\ TYPES.STRUCT[t_S2].members[4].next_dup = None

\* the member is declared with the argument placeholder as its cond, length
\* or width
DeclaredWithArgument(m) ==
    m.cond._code = ARG \/ m.length._code = ARG \/ m.width._code = ARG

\* C25: a member declared with cond, length or width equal to the argument
\* placeholder has uses_argument true, and the argument flag of a Struct or
\* Block is true exactly when at least one of its members, at whatever
\* position, uses the placeholder.
C25_UsesArgument ==
    \A c \in Composites :
        /\ \A i \in 1..Len(c.members) :
              /\ DeclaredWithArgument(c.members[i]) => c.members[i].uses_argument
              /\ c.members[i].uses_argument => c.argument
        /\ c.argument
              <=> \E i \in 1..Len(c.members) : DeclaredWithArgument(c.members[i])

RECURSIVE HasArrWithin(_, _)
\* some member has a non-empty length, or is of the type of a registered
\* Struct of which the same holds, through at most fuel such types
HasArrWithin(members, fuel) ==
    \E k \in 1..Len(members) :
        \/ Truthy(lhs(members[k].length))
        \/ /\ fuel > 0
           /\ members[k].type \in DOMAIN TYPES.STRUCT
           /\ HasArrWithin(TYPES.STRUCT[members[k].type].members, fuel - 1)

\* C28: after a load that returned true, has_arr() terminates for every
\* registered Struct and Block, also when a Struct has a member of its own
\* type or two Structs have members of each other's type, and returns true
\* exactly when some own member has a non-empty length or is of the type of
\* a registered Struct for which has_arr() is true.
C28_HasArrTerminates ==
    (stage = "validated" /\ result = LoadReturn(TRUE))
        => \A c \in Composites :
              has_arr(c, TYPES.STRUCT)
                 = BoolReturn(HasArrWithin(c.members, Cardinality(DOMAIN TYPES.STRUCT)))

\* the literal that the synthesis table gives a scalar member of this type
TableLiteral(type) ==
    IF type \in IntegerFamily THEN <<"0">>
    ELSE IF type = t_bool THEN <<"f", "a", "l", "s", "e">>
    ELSE IF type \in RefFamily THEN <<"N", "U", "L", "L">>
    ELSE IF type = t_float THEN <<"0", ".", "0">>
    ELSE IF type = <<"S", "t", "r", "i", "n", "g", "O", "f", "f", "s", "e", "t">>
    THEN <<"-", "1">>
    ELSE IF \E c \in {"BASIC", "ENUM", "FLAG"} : type \in DOMAIN TYPES[c]
    THEN <<"0">>
    ELSE <<>>

\* the elements of the document from which this load built and registered
\* the Struct or Block of their name
BuiltFrom(elements, cat) ==
    { k \in 1..Len(elements) :
        /\ elements[k].name \in DOMAIN TYPES[cat] \ DOMAIN start.TYPES[cat]
        /\ \A j \in 1..(k - 1) : elements[j].name # elements[k].name }

\* the members built from these elements have the defaults of the table
TableDefaults(elements, cat) ==
    \A k \in BuiltFrom(elements, cat) :
        \A i \in 1..Len(elements[k].adds) :
            elements[k].adds[i].default = <<>> =>
                TYPES[cat][elements[k].name].members[i].default
                   = IF elements[k].adds[i].length = <<>>
                         /\ elements[k].adds[i].width = <<>>
                     THEN FormatDefault(TableLiteral(elements[k].adds[i].type),
                                        elements[k].adds[i].type, Expr(<<>>))
                     ELSE <<>>

\* C27: a member declared without a default, with empty length and width,
\* gets the literal of the synthesis table, in the form the constructor
\* gives every default it keeps: '0' for an integer-family type, 'false' for
\* bool, the null literal for Ref and Ptr, '0.0' for the type float and for
\* no other type, '-1' for StringOffset, '0' for any other registered basic,
\* enum or flag type name, and no default for every remaining type; with a
\* length or a width and no declared default it gets no default.
C27_DefaultTable ==
    TableDefaults(xml.structs, "STRUCT") /\ TableDefaults(xml.niobjects, "BLOCK")

=============================================================================
